---- MODULE Spec2Model ----
(***************************************************************************)
(* The cinestream transcoding pipeline: the producer (UploadMovie), the    *)
(* Redis job queue, the worker loop (JobProcessor.Start / processJob) and  *)
(* the HLS orchestrator (TranscodeToHLS), over a record store              *)
(* (movie_videos), two object-storage buckets and the worker's /tmp.       *)
(***************************************************************************)
EXTENDS Integers, Sequences, FiniteSets, TLC

(***************************************************************************)
(* Bounds of the model.                                                    *)
(***************************************************************************)
\* movies ever uploaded (movie ids are 1..MaxMovies, auto-increment)
MaxMovies == 2
\* worker processes consuming the same queue
NumWorkers == 2
\* disturbances per run: I/O errors (database, object storage, Redis, local
\* disk), ffmpeg runs that leave debris, shutdown signals and worker crashes
MaxFaults == 1

MovieIDs == 1..MaxMovies
Workers == 1..NumWorkers
\* job[w] when worker w holds no job
NoJob == [MovieID |-> 0, RawFilePath |-> <<>>]
\* the extensions of the uploaded file names
Exts == {".mp4"}

(***************************************************************************)
(* Strings the code takes apart are sequences of tokens; "" is <<>>.       *)
(***************************************************************************)
\* strings.TrimSuffix, on tokens
TrimSuffix(s, suffix) ==
    IF Len(s) >= 1 /\ s[Len(s)] = suffix THEN SubSeq(s, 1, Len(s) - 1) ELSE s

\* strings.HasSuffix, on tokens
HasSuffix(s, suffix) == Len(s) >= 1 /\ s[Len(s)] = suffix

\* strings.Split(s, sep): the pieces of s between the occurrences of sep
RECURSIVE Split(_, _)
Split(s, sep) ==
    IF \A i \in 1..Len(s) : s[i] # sep
    THEN <<s>>
    ELSE LET k == CHOOSE i \in 1..Len(s) :
                      s[i] = sep /\ \A j \in 1..(i - 1) : s[j] # sep
         IN <<SubSeq(s, 1, k - 1)>> \o Split(SubSeq(s, k + 1, Len(s)), sep)

\* fmt.Sprintf("%d", n) for n >= 0: the decimal digits of n
DigitChars == <<"0", "1", "2", "3", "4", "5", "6", "7", "8", "9">>
RECURSIVE Itoa(_)
Itoa(n) == IF n < 10 THEN <<DigitChars[n + 1]>>
           ELSE Itoa(n \div 10) \o <<DigitChars[(n % 10) + 1]>>

(***************************************************************************)
(* transcoding/ffmpeg.go: the configured quality profiles.                 *)
(***************************************************************************)
qualityProfiles == <<
    [Name |-> "1080p", Resolution |-> <<"1920", "x", "1080">>,
     Bitrate |-> <<"5", "0", "0", "0", "k">>, MaxRate |-> "5350k", BufSize |-> "7500k"],
    [Name |-> "720p", Resolution |-> <<"1280", "x", "720">>,
     Bitrate |-> <<"2", "8", "0", "0", "k">>, MaxRate |-> "2996k", BufSize |-> "4200k"],
    [Name |-> "480p", Resolution |-> <<"854", "x", "480">>,
     Bitrate |-> <<"1", "4", "0", "0", "k">>, MaxRate |-> "1498k", BufSize |-> "2100k"],
    [Name |-> "360p", Resolution |-> <<"640", "x", "360">>,
     Bitrate |-> <<"8", "0", "0", "k">>, MaxRate |-> "856k", BufSize |-> "1200k"] >>

NumProfiles == Len(qualityProfiles)

\* transcodeQuality: playlistName = fmt.Sprintf("%s.m3u8", profile.Name)
PlaylistName(profile) == <<profile.Name, ".m3u8">>

\* transcodeQuality: segmentPattern "%s_%03d.ts"; a rendition here has one segment
SegmentName(profile) == <<profile.Name, "_000", ".ts">>

MasterName == <<"master", ".m3u8">>

\* what ffmpeg writes into a playlist or a segment: opaque to the pipeline
MediaContent == <<[text |-> "ffmpeg"]>>


(***************************************************************************)
(* createMasterPlaylist: the content written to master.m3u8, as lines.     *)
(***************************************************************************)
\* the first profile whose Name is qualityName, or 0 when none matches
FindProfile(qualityName) ==
    LET matches == {j \in 1..NumProfiles : <<qualityProfiles[j].Name>> = qualityName}
    IN IF matches = {} THEN 0
       ELSE CHOOSE j \in matches : \A k \in matches : j <= k

\* a plausible slip: the bitrate written as it is configured, in kbit/s
StreamInfBandwidthKbit(bitrate) == TrimSuffix(bitrate, "k")

\* createMasterPlaylist: BANDWIDTH=%s000 of the bitrate without its k suffix
StreamInfBandwidth(bitrate) == TrimSuffix(bitrate, "k") \o <<"0", "0", "0">>

\* the lines createMasterPlaylist writes for variantPlaylists[i] (i from 1)
MasterEntry(variantPlaylists, i) ==
    LET playlist == variantPlaylists[i]
        qualityName == TrimSuffix(playlist, ".m3u8")
        j == FindProfile(qualityName)
    IN IF j # 0
       THEN LET profile == qualityProfiles[j]
                parts == Split(profile.Resolution, "x")
            IN IF Len(parts) = 2
               THEN << [tag |-> "#EXT-X-STREAM-INF",
                        BANDWIDTH |-> StreamInfBandwidth(profile.Bitrate),
                        RESOLUTION |-> profile.Resolution],
                       [uri |-> playlist] >>
               ELSE <<>>
       ELSE << [tag |-> "#EXT-X-STREAM-INF",
                BANDWIDTH |-> Itoa((Len(variantPlaylists) - (i - 1)) * 1000000),
                RESOLUTION |-> <<>>],
               [uri |-> playlist] >>

RECURSIVE MasterEntries(_, _)
MasterEntries(variantPlaylists, i) ==
    IF i > Len(variantPlaylists) THEN <<>>
    ELSE MasterEntry(variantPlaylists, i) \o MasterEntries(variantPlaylists, i + 1)

\* a plausible slip: each new entry is written before the ones already written
RECURSIVE MasterEntriesPrepended(_, _)
MasterEntriesPrepended(variantPlaylists, i) ==
    IF i > Len(variantPlaylists) THEN <<>>
    ELSE MasterEntriesPrepended(variantPlaylists, i + 1) \o MasterEntry(variantPlaylists, i)

createMasterPlaylistPrepending(variantPlaylists) ==
    << [text |-> "#EXTM3U"], [text |-> "#EXT-X-VERSION:3"] >>
        \o MasterEntriesPrepended(variantPlaylists, 1)

createMasterPlaylist(variantPlaylists) ==
    << [text |-> "#EXTM3U"], [text |-> "#EXT-X-VERSION:3"] >>
        \o MasterEntries(variantPlaylists, 1)

(***************************************************************************)
(* uploadHLSFiles: filepath.Walk visits the files of a directory in        *)
(* lexical (byte) order of their names. Two tokens at the same position of *)
(* two file names of the output directory are equal or differ in their     *)
(* first byte, so the order of the names is the order of those bytes.      *)
(***************************************************************************)
FirstByte(token) ==
    CASE token = "1080p" -> 49
      [] token = "360p" -> 51
      [] token = "480p" -> 52
      [] token = "720p" -> 55
      [] token = "master" -> 109
      [] token = ".m3u8" -> 46
      [] token = ".ts" -> 46
      [] token = "_000" -> 95
      [] OTHER -> 0

RECURSIVE NameLess(_, _)
NameLess(a, b) ==
    IF Len(a) = 0 THEN Len(b) > 0
    ELSE IF Len(b) = 0 THEN FALSE
    ELSE IF a[1] = b[1] THEN NameLess(Tail(a), Tail(b))
    ELSE FirstByte(a[1]) < FirstByte(b[1])

\* the names of a set, in the order filepath.Walk visits them
RECURSIVE WalkOrder(_)
WalkOrder(names) ==
    IF names = {} THEN <<>>
    ELSE LET first == CHOOSE n \in names : \A o \in names \ {n} : NameLess(n, o)
         IN <<first>> \o WalkOrder(names \ {first})

\* a plausible slip: a base path without the movie id
BasePathShared(movieID) == <<"movie-", 0>>

\* uploadHLSFiles: basePath = fmt.Sprintf("movie-%d", movieID)
BasePath(movieID) == <<"movie-", movieID>>

\* uploadHLSFiles: objectName = filepath.Join(basePath, relPath)
ObjectName(movieID, relPath) == <<BasePath(movieID), relPath>>

\* uploadHLSFiles: the Content-Type chosen from the file name
ContentType(name) ==
    IF HasSuffix(name, ".m3u8") THEN "application/vnd.apple.mpegurl"
    ELSE IF HasSuffix(name, ".ts") THEN "video/mp2t"
    ELSE "application/octet-stream"

\* a plausible slip: the prefix DeleteProcessedVideo and GetHLSURL use
MasterPlaylistURLProcessedPrefix(movieID) == <<<<"processed-videos/", movieID>>, MasterName>>

\* uploadHLSFiles: the returned path, fmt.Sprintf("%s/master.m3u8", basePath)
MasterPlaylistURL(movieID) == <<BasePath(movieID), MasterName>>

\* StorageService.UploadRawVideo: fmt.Sprintf("raw-videos/movie-%d%s", movieID, ext)
RawObjectName(movieID, ext) == <<"raw-videos/movie-", movieID, ext>>

(***************************************************************************)
(* queue/service.go: the Redis list "transcoding:jobs" and the JSON job.   *)
(***************************************************************************)
\* json.Marshal(TranscodingJob): the struct's fields under their JSON names
Marshal(j) == [movie_id |-> j.MovieID, raw_file_path |-> j.RawFilePath]

\* a plausible slip: a JSON tag that does not match, leaving the path empty
UnmarshalWithoutPath(data) == [MovieID |-> data.movie_id, RawFilePath |-> <<>>]

\* json.Unmarshal into a TranscodingJob
Unmarshal(data) == [MovieID |-> data.movie_id, RawFilePath |-> data.raw_file_path]

\* a plausible slip: RPUSH, which adds at the end BRPOP takes from
LPushAtTail(list, value) == list \o <<value>>

\* Redis LPUSH: the value becomes the head of the list
LPush(list, value) == <<value>> \o list

\* a plausible slip: reading the tail without removing it (LINDEX -1)
BRPopKeeping(list) == [value |-> list[Len(list)], rest |-> list]

\* Redis BRPOP on a non-empty list: the tail is removed and returned
BRPop(list) == [value |-> list[Len(list)], rest |-> SubSeq(list, 1, Len(list) - 1)]

(***************************************************************************)
(* movies/repository: the movie_videos table, a function from the movie    *)
(* ids that have a row to that row.                                        *)
(***************************************************************************)
\* UploadMovie: the row CreateMovieVideo inserts
NewMovieVideo == [upload_status |-> "PENDING", raw_file_path |-> <<>>,
                  hls_playlist_url |-> <<>>, error_message |-> ""]

\* gorm Updates(map): the named columns are overwritten, the others kept
ApplyUpdates(row, updates) ==
    [c \in DOMAIN row |-> IF c \in DOMAIN updates THEN updates[c] ELSE row[c]]

\* a plausible slip: the Where clause left out, so that every row is updated
UpdateMovieVideoAllRows(table, movieID, updates) ==
    IF movieID \in DOMAIN table
    THEN [err |-> FALSE, table |-> [m \in DOMAIN table |-> ApplyUpdates(table[m], updates)]]
    ELSE [err |-> TRUE, table |-> table]

\* a plausible slip: rows matched are counted (clientFoundRows=true), so an
\* update that changes nothing is no error
UpdateMovieVideoFoundRows(table, movieID, updates) ==
    IF movieID \in DOMAIN table
    THEN [err |-> FALSE,
          table |-> [table EXCEPT ![movieID] = ApplyUpdates(table[movieID], updates)]]
    ELSE [err |-> TRUE, table |-> table]

\* MovieRepository.UpdateMovieVideo: an error when RowsAffected is 0, which
\* MySQL reports when no row has that movie_id or the row already holds the
\* values
UpdateMovieVideo(table, movieID, updates) ==
    IF movieID \in DOMAIN table /\ ApplyUpdates(table[movieID], updates) # table[movieID]
    THEN [err |-> FALSE,
          table |-> [table EXCEPT ![movieID] = ApplyUpdates(table[movieID], updates)]]
    ELSE [err |-> TRUE, table |-> table]

\* processJob: the three updates it makes
ProcessingUpdates == [upload_status |-> "PROCESSING"]

\* a plausible slip: the error is logged and not stored
FailedUpdatesNoMessage(message) == [upload_status |-> "FAILED"]

FailedUpdates(message) == [upload_status |-> "FAILED", error_message |-> message]

\* a plausible slip: the playlist path is logged and not stored
ReadyUpdatesNoURL(hlsURL) == [upload_status |-> "READY", error_message |-> ""]

ReadyUpdates(hlsURL) ==
    [upload_status |-> "READY", hls_playlist_url |-> hlsURL, error_message |-> ""]


(***************************************************************************)
(* The worker's local disk: workDirs maps the movie ids whose working      *)
(* directory /tmp/transcoding/movie-{id} exists to its content.            *)
(***************************************************************************)
NoFiles == [n \in {} |-> <<>>]

\* os.MkdirAll(workDir): creates the directory unless it is there already
MkdirAll(dirs, movieID) ==
    IF movieID \in DOMAIN dirs THEN dirs
    ELSE (movieID :> [input |-> FALSE, output |-> NoFiles]) @@ dirs

\* a plausible slip: the deferred cleanup is missing
RemoveAllMissing(dirs, movieID) == dirs

\* os.RemoveAll(workDir): the directory and everything under it is gone
RemoveAll(dirs, movieID) == [d \in DOMAIN dirs \ {movieID} |-> dirs[d]]

\* the files of a directory after one more is written
WriteFile(files, name, content) == (name :> content) @@ files

(***************************************************************************)
(* State.                                                                  *)
(***************************************************************************)
VARIABLES
    queue,            \* the Redis list transcoding:jobs, head first
    movieVideos,      \* the movie_videos table
    rawBucket,        \* the object names in the raw bucket
    processedBucket,  \* the processed bucket: object name -> object
    workDirs,         \* the working directories on the worker's disk
    upc,              \* UploadMovie, per movie id: where the request is; once it
                      \* has returned an error, "aborted" when its update to
                      \* FAILED failed and "error" otherwise
    dpc,              \* DeleteMovie, per movie id: where the request is and the
                      \* RawFilePath it has read
    pc,               \* per worker: where Start / processJob / TranscodeToHLS is
    job,              \* per worker: the job processJob was given
    ctxDone,          \* per worker: its context has been cancelled
    profIdx,          \* per worker: the profile whose ffmpeg run is in flight
    walkIdx,          \* per worker: the files the walk of uploadHLSFiles has stored
    variantPlaylists, \* per worker: TranscodeToHLS's variantPlaylists
    result,           \* per worker: what TranscodeToHLS returned
    attempts,         \* per worker: the profiles cmd.Run was called for, in order (history)
    succeeded,        \* per worker: the profiles whose encode returned nil (history)
    cancelAt,         \* per worker: where it was when its context was cancelled (history)
    crashPhase,       \* per worker: what a crashed worker was doing (history)
    probe,            \* per worker: what ffmpeg -encoders gives in its process, the
                      \* encoder detectH264Encoder returned last and the probes run
                      \* (history, kept where Init switches it on)
    lastConsume,      \* per worker: how its latest ConsumeTranscodingJob call ended
                      \* (history, kept where Init switches it on)
    faults,           \* the I/O errors and debris injected so far
    stops,            \* the workers stopped from outside so far
    published,        \* the movie ids of the jobs published, in order (history)
    delivered         \* the movie ids of the jobs delivered, in order (history)

vars == <<queue, movieVideos, rawBucket, processedBucket, workDirs, upc, dpc,
          pc, job, ctxDone, profIdx, walkIdx, variantPlaylists, result, attempts, succeeded,
          cancelAt, crashPhase, lastConsume, probe, faults, stops, published, delivered>>

workerVars == <<pc, job, ctxDone, profIdx, walkIdx, variantPlaylists, result, attempts,
                succeeded, cancelAt, crashPhase, lastConsume, probe>>
storeVars == <<queue, movieVideos, rawBucket, processedBucket, workDirs, published, delivered>>

NoResult == [err |-> "", url |-> <<>>]

\* the encoders an ffmpeg build may list
EncoderNames == {"h264_vaapi", "h264_nvenc", "libopenh264", "mpeg4"}

\* probe[w] where the probes are not followed
NoProbe == [tracked |-> FALSE, output |-> {}, err |-> FALSE, encoder |-> "", calls |-> 0]

\* a plausible slip: the encoders are tried from the hardware ones down
detectH264EncoderHardwareFirst(output, err) ==
    IF err THEN "mpeg4"
    ELSE IF "h264_vaapi" \in output THEN "h264_vaapi"
    ELSE IF "h264_nvenc" \in output THEN "h264_nvenc"
    ELSE IF "libopenh264" \in output THEN "libopenh264"
    ELSE "mpeg4"

\* detectH264Encoder: mpeg4 when ffmpeg -encoders fails; else the first of
\* libopenh264, mpeg4 the output contains; else mpeg4. output is the set of
\* the encoder names in the text printed.
detectH264Encoder(output, err) ==
    IF err THEN "mpeg4"
    ELSE IF "libopenh264" \in output THEN "libopenh264"
    ELSE IF "mpeg4" \in output THEN "mpeg4"
    ELSE "mpeg4"

\* a plausible slip: the result of the first probe is kept for the process
ProbeCallsCached(calls, n) == IF calls = 0 THEN 1 ELSE calls

\* the probes run after n more calls of transcodeQuality, each of which
\* calls detectH264Encoder
ProbeCalls(calls, n) == calls + n

\* probe after worker w has called transcodeQuality n more times
Probed(w, n) ==
    IF ~probe[w].tracked THEN probe
    ELSE [probe EXCEPT ![w] =
             [@ EXCEPT !.encoder = detectH264Encoder(probe[w].output, probe[w].err),
                       !.calls = ProbeCalls(probe[w].calls, n)]]

\* dpc[m] when no DeleteMovie of movie m is running
NoDelete == [at |-> "none", raw |-> <<>>]

\* the state after the services are constructed, with no movie uploaded;
\* history is the starting value of lastConsume, probed that of probe
InitWith(history, probed) ==
    /\ queue = <<>>
    /\ movieVideos = [m \in {} |-> NewMovieVideo]
    /\ rawBucket = {}
    /\ processedBucket = [k \in {} |-> <<>>]
    /\ workDirs = [m \in {} |-> NoFiles]
    /\ upc = [m \in MovieIDs |-> "none"]
    /\ dpc = [m \in MovieIDs |-> NoDelete]
    /\ pc = [w \in Workers |-> "consume"]
    /\ job = [w \in Workers |-> NoJob]
    /\ ctxDone = [w \in Workers |-> FALSE]
    /\ profIdx = [w \in Workers |-> 0]
    /\ walkIdx = [w \in Workers |-> 0]
    /\ variantPlaylists = [w \in Workers |-> <<>>]
    /\ result = [w \in Workers |-> NoResult]
    /\ attempts = [w \in Workers |-> <<>>]
    /\ succeeded = [w \in Workers |-> {}]
    /\ cancelAt = [w \in Workers |-> "never"]
    /\ crashPhase = [w \in Workers |-> "none"]
    /\ lastConsume = [w \in Workers |-> history]
    /\ probe = [w \in Workers |-> probed]
    /\ faults = 0
    /\ stops = 0
    /\ published = <<>>
    /\ delivered = <<>>

Init == InitWith("untracked", NoProbe)

InitTracked == InitWith("none", NoProbe)

\* the same as Init with the history of the probes switched on, for every
\* list of encoders ffmpeg can print and for a probe that fails
InitProbe ==
    \E output \in SUBSET EncoderNames, err \in BOOLEAN :
        InitWith("untracked", [tracked |-> TRUE, output |-> output, err |-> err,
                               encoder |-> "", calls |-> 0])

\* the same for the builds of ffmpeg that list none or all of the encoders
InitProbeEnds ==
    \E output \in {{}, EncoderNames}, err \in BOOLEAN :
        InitWith("untracked", [tracked |-> TRUE, output |-> output, err |-> err,
                               encoder |-> "", calls |-> 0])

\* I/O calls fail for reasons of their own only within the budget; a call
\* that does not fail is never held back by it
Faults(n) ==
    /\ n > 0 => faults + stops + n <= MaxFaults
    /\ faults' = faults + n
    /\ UNCHANGED stops

Fault(f) == Faults(IF f THEN 1 ELSE 0)

(***************************************************************************)
(* The producer: MovieUsecase.UploadMovie, one request per movie id.       *)
(***************************************************************************)
\* steps 2-3: CreateMovie (auto-increment id), CreateMovieVideo with PENDING
UploadCreate(m, f) ==
    /\ upc[m] = "none"
    /\ \A k \in MovieIDs : k < m => upc[k] # "none"
    /\ Fault(f)
    /\ IF f
       THEN /\ upc' = [upc EXCEPT ![m] = "error"]
            /\ UNCHANGED movieVideos
       ELSE /\ upc' = [upc EXCEPT ![m] = "created"]
            /\ movieVideos' = (m :> NewMovieVideo) @@ movieVideos
    /\ UNCHANGED <<queue, rawBucket, processedBucket, workDirs, published, delivered>>
    /\ UNCHANGED workerVars
    /\ UNCHANGED dpc

\* a plausible slip: the error of UploadRawVideo is dropped
UploadRawVideoUnchecked(f) == FALSE

\* UploadRawVideo returns an error: its PutObject failed
UploadRawVideoFailed(f) == f

\* step 4: UploadRawVideo, one PutObject into the raw bucket; on its error
\* UploadMovie goes on to mark the record FAILED
UploadRaw(m, ext, f) ==
    /\ upc[m] = "created"
    /\ Fault(f)
    /\ rawBucket' = IF f THEN rawBucket ELSE rawBucket \cup {RawObjectName(m, ext)}
    /\ upc' = [upc EXCEPT ![m] = IF UploadRawVideoFailed(f) THEN "uploadFailed" ELSE "stored"]
    /\ UNCHANGED <<queue, movieVideos, processedBucket, workDirs, published, delivered>>
    /\ UNCHANGED workerVars
    /\ UNCHANGED dpc

\* step 5: the update of raw_file_path; on its error UploadMovie returns
UploadSetPath(m, ext, f) ==
    /\ upc[m] = "stored"
    /\ Fault(f)
    /\ LET r == UpdateMovieVideo(movieVideos, m, [raw_file_path |-> RawObjectName(m, ext)])
       IN IF f \/ r.err
          THEN /\ upc' = [upc EXCEPT ![m] = "error"]
               /\ UNCHANGED movieVideos
          ELSE /\ upc' = [upc EXCEPT ![m] = "pathset"]
               /\ movieVideos' = r.table
    /\ UNCHANGED <<queue, rawBucket, processedBucket, workDirs, published, delivered>>
    /\ UNCHANGED workerVars
    /\ UNCHANGED dpc

\* step 6: PublishTranscodingJob, one LPUSH; on its error UploadMovie goes on
\* to mark the record FAILED, otherwise it returns the response
UploadPublish(m, ext, f) ==
    /\ upc[m] = "pathset"
    /\ Fault(f)
    /\ IF f
       THEN /\ upc' = [upc EXCEPT ![m] = "publishFailed"]
            /\ UNCHANGED <<queue, published>>
       ELSE /\ upc' = [upc EXCEPT ![m] = "ok"]
            /\ queue' = LPush(queue, Marshal([MovieID |-> m,
                                              RawFilePath |-> RawObjectName(m, ext)]))
            /\ published' = Append(published, m)
    /\ UNCHANGED <<movieVideos, rawBucket, processedBucket, workDirs, delivered>>
    /\ UNCHANGED workerVars
    /\ UNCHANGED dpc

\* the message of the update to FAILED
UploadFailedMessage(m) ==
    IF upc[m] = "uploadFailed" THEN "Failed to upload file"
    ELSE "Failed to queue transcoding job"

\* a plausible slip: the update to FAILED without the message
UploadFailedSilent(table, m, message, f2) ==
    IF f2 THEN table ELSE UpdateMovieVideo(table, m, [upload_status |-> "FAILED"]).table

\* UploadMovie's update to FAILED, whose own error is ignored
UploadFailed(table, m, message, f2) ==
    IF f2 THEN table ELSE UpdateMovieVideo(table, m, FailedUpdates(message)).table

\* steps 4 and 6 on error: the update to FAILED with the message; its own
\* error (f2, or no row to update) is dropped and UploadMovie returns the
\* error of the call. This update follows a call that failed, so that its
\* failure is a second error: it is the one error admitted when the budget
\* is spent.
UploadMarkFailed(m, f2) ==
    /\ upc[m] \in {"uploadFailed", "publishFailed"}
    /\ f2 => faults + stops <= MaxFaults
    /\ faults' = faults + (IF f2 THEN 1 ELSE 0)
    /\ UNCHANGED stops
    /\ movieVideos' = UploadFailed(movieVideos, m, UploadFailedMessage(m), f2)
    /\ upc' = [upc EXCEPT ![m] =
                  IF f2 \/ UpdateMovieVideo(movieVideos, m,
                                            FailedUpdates(UploadFailedMessage(m))).err
                  THEN "aborted" ELSE "error"]
    /\ UNCHANGED <<queue, rawBucket, processedBucket, workDirs, published, delivered>>
    /\ UNCHANGED workerVars
    /\ UNCHANGED dpc

(***************************************************************************)
(* The worker: JobProcessor.Start, processJob and TranscodeToHLS.          *)
(***************************************************************************)
Alive(w) == pc[w] \notin {"stopped", "crashed"}

\* a plausible slip: the loop body without the loop
NextIterationOnce(w) == "stopped"

\* Start, top of the loop: select on ctx.Done(), else consume
NextIteration(w) == IF ctxDone[w] THEN "stopped" ELSE "consume"

\* TranscodeToHLS's locals, as they are when it is not running
ResetLocals(w) ==
    /\ profIdx' = [profIdx EXCEPT ![w] = 0]
    /\ walkIdx' = [walkIdx EXCEPT ![w] = 0]
    /\ variantPlaylists' = [variantPlaylists EXCEPT ![w] = <<>>]

\* TranscodeToHLS returns (err, url) after its deferred os.RemoveAll(workDir)
Return(w, dirs, err, url) ==
    /\ workDirs' = RemoveAll(dirs, job[w].MovieID)
    /\ result' = [result EXCEPT ![w] = [err |-> err, url |-> url]]
    /\ pc' = [pc EXCEPT ![w] = "finish"]
    /\ ResetLocals(w)

\* the history of worker w's consume calls after one that ended as outcome
Tracked(w, outcome) ==
    IF lastConsume[w] = "untracked" THEN lastConsume
    ELSE [lastConsume EXCEPT ![w] = outcome]

\* a plausible slip: go p.processJob(ctx, job), the loop going on at once
AtConsumeWhileRunning(w) == pc[w] \in {"consume", "download", "encoding"}

\* Start: the loop is at its call of ConsumeTranscodingJob, which it reaches
\* again only when processJob has returned
AtConsume(w) == pc[w] = "consume"

\* ConsumeTranscodingJob: BRPOP returns a job, which is unmarshalled
ConsumeJob(w) ==
    /\ AtConsume(w)
    /\ queue # <<>>
    /\ LET r == BRPop(queue)
           j == Unmarshal(r.value)
       IN /\ queue' = r.rest
          /\ job' = [job EXCEPT ![w] = j]
          /\ delivered' = Append(delivered, j.MovieID)
          /\ UNCHANGED published
    /\ pc' = [pc EXCEPT ![w] = "process"]
    /\ lastConsume' = Tracked(w, "job")
    /\ UNCHANGED probe
    /\ UNCHANGED <<movieVideos, rawBucket, processedBucket, workDirs, faults, stops>>
    /\ UNCHANGED <<ctxDone, profIdx, walkIdx, variantPlaylists, result, attempts, succeeded,
                   cancelAt, crashPhase>>
    /\ UNCHANGED <<upc, dpc>>

\* ConsumeTranscodingJob: the timeout BRPOP is given, in seconds; 0 would
\* block until a job arrives
BRPopTimeout == 5

\* a plausible slip: BRPOP without a timeout
DeadlineNever == FALSE

\* BRPOP on an empty list returns redis.Nil when its timeout has run out
DeadlineElapses == BRPopTimeout > 0

\* ConsumeTranscodingJob: BRPOP times out (redis.Nil): nil job, nil error;
\* Start continues with the next iteration
ConsumeTimeout(w) ==
    /\ pc[w] = "consume"
    /\ queue = <<>>
    /\ DeadlineElapses
    /\ pc' = [pc EXCEPT ![w] = NextIteration(w)]
    /\ lastConsume' = Tracked(w, "nojob")
    /\ UNCHANGED probe
    /\ UNCHANGED <<job, ctxDone, profIdx, walkIdx, variantPlaylists, result, attempts, succeeded,
                   cancelAt, crashPhase, faults, stops>>
    /\ UNCHANGED storeVars
    /\ UNCHANGED <<upc, dpc>>

\* ConsumeTranscodingJob returns an error: Start returns if the context is
\* cancelled, and otherwise logs it and continues
ConsumeError(w, f) ==
    /\ pc[w] = "consume"
    /\ f = ~ctxDone[w]
    /\ Fault(f)
    /\ pc' = [pc EXCEPT ![w] = NextIteration(w)]
    /\ lastConsume' = Tracked(w, "error")
    /\ UNCHANGED probe
    /\ UNCHANGED <<job, ctxDone, profIdx, walkIdx, variantPlaylists, result, attempts, succeeded,
                   cancelAt, crashPhase>>
    /\ UNCHANGED storeVars
    /\ UNCHANGED <<upc, dpc>>

\* a plausible slip: the update is written although the call reports an error
WorkerUpdateWritten(w, updates, f) ==
    [err |-> ctxDone[w] \/ f \/ UpdateMovieVideo(movieVideos, job[w].MovieID, updates).err,
     table |-> UpdateMovieVideo(movieVideos, job[w].MovieID, updates).table]

\* a record update of the worker: database/sql refuses a cancelled context
WorkerUpdate(w, updates, f) ==
    IF ctxDone[w] \/ f THEN [err |-> TRUE, table |-> movieVideos]
    ELSE UpdateMovieVideo(movieVideos, job[w].MovieID, updates)

\* processJob: the update to PROCESSING; on error processJob returns, and
\* Start logs the error and continues
MarkProcessing(w, f) ==
    /\ pc[w] = "process"
    /\ f => ~ctxDone[w]
    /\ Fault(f)
    /\ LET r == WorkerUpdate(w, ProcessingUpdates, f)
       IN /\ movieVideos' = r.table
          /\ IF r.err
             THEN /\ pc' = [pc EXCEPT ![w] = NextIteration(w)]
                  /\ job' = [job EXCEPT ![w] = NoJob]
             ELSE /\ pc' = [pc EXCEPT ![w] = "download"]
                  /\ UNCHANGED job
    /\ UNCHANGED <<queue, rawBucket, processedBucket, workDirs, published, delivered>>
    /\ UNCHANGED <<ctxDone, profIdx, walkIdx, variantPlaylists, result, attempts, succeeded,
                   cancelAt, crashPhase, lastConsume, probe>>
    /\ UNCHANGED <<upc, dpc>>

\* a plausible slip: the error of downloadFromMinIO is dropped
downloadFromMinIOUnchecked(w, broken) == FALSE

\* downloadFromMinIO returns an error: the context is cancelled, or the
\* object cannot be opened or its copy to input.mp4 breaks (broken)
downloadFromMinIO(w, broken) == ctxDone[w] \/ broken

\* TranscodeToHLS up to the copy of the raw object: os.MkdirAll(workDir) (f:
\* it fails), after which the cleanup is deferred; downloadFromMinIO opens
\* the object and creates input.mp4. A cancelled context or a missing object
\* ends the download at once; otherwise the copy is under way.
DownloadStart(w, f) ==
    /\ pc[w] = "download"
    /\ Fault(f)
    /\ LET m == job[w].MovieID
           made == MkdirAll(workDirs, m)
       IN IF f
          THEN /\ result' = [result EXCEPT ![w] =
                               [err |-> "failed to create work directory", url |-> <<>>]]
               /\ pc' = [pc EXCEPT ![w] = "finish"]
               /\ UNCHANGED <<workDirs, profIdx, walkIdx, variantPlaylists>>
          ELSE IF downloadFromMinIO(w, job[w].RawFilePath \notin rawBucket)
          THEN Return(w, made, "failed to download raw video", <<>>)
          ELSE /\ workDirs' = made
               /\ pc' = [pc EXCEPT ![w] = "downloading"]
               /\ UNCHANGED <<result, profIdx, walkIdx, variantPlaylists>>
    /\ UNCHANGED <<queue, movieVideos, rawBucket, processedBucket, published, delivered>>
    /\ UNCHANGED <<job, ctxDone, attempts, succeeded, cancelAt, crashPhase, lastConsume, probe>>
    /\ UNCHANGED <<upc, dpc>>

\* TranscodeToHLS from the end of the copy to the loop, the step named
\* failing (none when step is "none"): the copy to input.mp4 ends, with an
\* error when the context was cancelled meanwhile; an object deleted
\* meanwhile may or may not break the copy (gone); os.MkdirAll(outputDir).
\* Then the first ffmpeg run starts.
DownloadFinish(w, step, gone) ==
    /\ pc[w] = "downloading"
    /\ step # "none" => ~ctxDone[w] /\ ~gone
    /\ gone => job[w].RawFilePath \notin rawBucket
    /\ Fault(step # "none")
    /\ LET m == job[w].MovieID
       IN IF downloadFromMinIO(w, gone \/ step = "download")
          THEN Return(w, workDirs, "failed to download raw video", <<>>)
          ELSE IF step = "outputDir"
          THEN Return(w, workDirs, "failed to create output directory", <<>>)
          ELSE /\ workDirs' = [workDirs EXCEPT ![m].input = TRUE]
               /\ pc' = [pc EXCEPT ![w] = "encoding"]
               /\ profIdx' = [profIdx EXCEPT ![w] = 1]
               /\ UNCHANGED <<result, walkIdx, variantPlaylists>>
    /\ UNCHANGED <<queue, movieVideos, rawBucket, processedBucket, published, delivered>>
    /\ UNCHANGED <<job, ctxDone, attempts, succeeded, cancelAt, crashPhase, lastConsume, probe>>
    /\ UNCHANGED <<upc, dpc>>

\* transcodeQuality: what the ffmpeg run leaves in the output directory
EncodeOutput(files, profile, ok, partial) ==
    IF ok
    THEN WriteFile(WriteFile(files, SegmentName(profile), MediaContent),
                   PlaylistName(profile), MediaContent)
    ELSE IF partial THEN WriteFile(files, SegmentName(profile), MediaContent)
    ELSE files

\* a plausible slip: exec.Command instead of exec.CommandContext
EncodeKilledNever(w) == FALSE

\* transcodeQuality: exec.CommandContext kills ffmpeg when the context is cancelled
EncodeKilled(w) == ctxDone[w]

\* a plausible slip: a profile whose encode failed is run again
NextProfileRetrying(i, ok) == IF ok THEN i + 1 ELSE i

\* TranscodeToHLS, for _, profile := range qualityProfiles: the profile after
\* profile i, whether its encode returned nil (ok) or an error (continue)
NextProfile(i, ok) == i + 1

\* TranscodeToHLS, the loop over qualityProfiles: the ffmpeg run of profile
\* profIdx ends. The next run starts; with a cancelled context every later
\* cmd.Run fails at once. After the last profile: no variant at all is an
\* error, otherwise createMasterPlaylist writes master.m3u8 (f: the write fails).
EncodeFinish(w, ok, partial, f) ==
    /\ pc[w] = "encoding"
    /\ EncodeKilled(w) => ~ok
    /\ ok => ~partial
    /\ LET m == job[w].MovieID
           i == profIdx[w]
           last == i = NumProfiles \/ ctxDone[w]
           variants == IF ok THEN Append(variantPlaylists[w], PlaylistName(qualityProfiles[i]))
                       ELSE variantPlaylists[w]
           encoded == [workDirs EXCEPT ![m].output =
                          EncodeOutput(@, qualityProfiles[i], ok, partial)]
       IN /\ f => last /\ variants # <<>>
          /\ Faults((IF f THEN 1 ELSE 0) + (IF partial THEN 1 ELSE 0))
          /\ succeeded' = [succeeded EXCEPT ![w] = IF ok THEN @ \cup {i} ELSE @]
          /\ attempts' = [attempts EXCEPT ![w] =
                             IF ctxDone[w] THEN @ \o [n \in 1..(NumProfiles - i + 1) |-> i + n - 1]
                             ELSE Append(@, i)]
          /\ IF ~last
             THEN /\ workDirs' = encoded
                  /\ variantPlaylists' = [variantPlaylists EXCEPT ![w] = variants]
                  /\ profIdx' = [profIdx EXCEPT ![w] = NextProfile(i, ok)]
                  /\ UNCHANGED <<pc, result, walkIdx>>
             ELSE IF variants = <<>>
             THEN Return(w, encoded, "failed to transcode any quality level", <<>>)
             ELSE IF f
             THEN Return(w, encoded, "failed to create master playlist", <<>>)
             ELSE /\ workDirs' = [encoded EXCEPT ![m].output =
                                     WriteFile(@, MasterName, createMasterPlaylist(variants))]
                  /\ variantPlaylists' = [variantPlaylists EXCEPT ![w] = variants]
                  /\ profIdx' = [profIdx EXCEPT ![w] = 0]
                  /\ pc' = [pc EXCEPT ![w] = "upload"]
                  /\ UNCHANGED <<result, walkIdx>>
    /\ UNCHANGED <<queue, movieVideos, rawBucket, processedBucket, published, delivered>>
    /\ probe' = Probed(w, IF ctxDone[w] THEN NumProfiles - profIdx[w] + 1 ELSE 1)
    /\ UNCHANGED <<job, ctxDone, cancelAt, crashPhase, lastConsume>>
    /\ UNCHANGED <<upc, dpc>>

\* a plausible slip: nothing is sent to the bucket
FPutObjectDryRun(bucket, movieID, dir, name) == bucket

\* FPutObject of the file name of the output directory dir into the
\* processed bucket, under its object name and with its Content-Type
FPutObject(bucket, movieID, dir, name) ==
    (ObjectName(movieID, name) :>
        [content |-> dir[name], contentType |-> ContentType(name)]) @@ bucket

\* a plausible slip: the callback logs the error and returns nil
WalkStopsNever(failed) == FALSE

\* filepath.Walk stops at the first error its callback returns
WalkStops(failed) == failed

\* uploadHLSFiles, one call of the callback of filepath.Walk: FPutObject of
\* the next file of the output directory, in the order of the walk. A
\* cancelled context or an error of the call (f) fails it, which ends the
\* walk; after the last file the master playlist path is returned.
UploadFile(w, f) ==
    /\ pc[w] = "upload"
    /\ f => ~ctxDone[w]
    /\ Fault(f)
    /\ LET m == job[w].MovieID
           files == WalkOrder(DOMAIN workDirs[m].output)
           k == walkIdx[w]
           failed == ctxDone[w] \/ f
       IN /\ processedBucket' =
                 IF failed THEN processedBucket
                 ELSE FPutObject(processedBucket, m, workDirs[m].output, files[k + 1])
          /\ IF WalkStops(failed)
             THEN Return(w, workDirs, "failed to upload HLS files", <<>>)
             ELSE IF k + 1 = Len(files)
             THEN Return(w, workDirs, "", MasterPlaylistURL(m))
             ELSE /\ walkIdx' = [walkIdx EXCEPT ![w] = k + 1]
                  /\ UNCHANGED <<workDirs, result, pc, profIdx, variantPlaylists>>
    /\ UNCHANGED <<queue, movieVideos, rawBucket, published, delivered>>
    /\ UNCHANGED <<job, ctxDone, attempts, succeeded, cancelAt, crashPhase, lastConsume, probe>>
    /\ UNCHANGED <<upc, dpc>>

\* a plausible slip: processJob is run again when it returned an error
AfterProcessJobRetrying(w, err) == IF err THEN "process" ELSE NextIteration(w)

\* a plausible slip: Start returns when processJob returns an error
AfterProcessJobReturning(w, err) == IF err \/ ctxDone[w] THEN "stopped" ELSE "consume"

\* Start, after processJob returned: its error is logged, the loop continues
AfterProcessJob(w, err) == NextIteration(w)

\* processJob after TranscodeToHLS: the update to FAILED with the error, or
\* to READY with the returned path; then processJob returns. The update to
\* FAILED follows a call that failed, so that its own failure (f) is a second
\* error: as in UploadMovie, it is the one error admitted when the budget is
\* spent.
Finish(w, f) ==
    /\ pc[w] = "finish"
    /\ f => ~ctxDone[w]
    /\ f => IF result[w].err # "" THEN faults + stops <= MaxFaults
            ELSE faults + stops + 1 <= MaxFaults
    /\ faults' = faults + (IF f THEN 1 ELSE 0)
    /\ UNCHANGED stops
    /\ LET updates == IF result[w].err # "" THEN FailedUpdates(result[w].err)
                      ELSE ReadyUpdates(result[w].url)
           r == WorkerUpdate(w, updates, f)
       IN /\ movieVideos' = r.table
          /\ pc' = [pc EXCEPT ![w] = AfterProcessJob(w, r.err \/ result[w].err # "")]
    /\ job' = [job EXCEPT ![w] = NoJob]
    /\ result' = [result EXCEPT ![w] = NoResult]
    /\ attempts' = [attempts EXCEPT ![w] = <<>>]
    /\ succeeded' = [succeeded EXCEPT ![w] = {}]
    /\ UNCHANGED <<queue, rawBucket, processedBucket, workDirs, published, delivered>>
    /\ UNCHANGED <<ctxDone, profIdx, walkIdx, variantPlaylists, cancelAt, crashPhase, lastConsume, probe>>
    /\ UNCHANGED <<upc, dpc>>

\* main: a shutdown signal cancels the worker's context
Cancel(w) ==
    /\ Alive(w)
    /\ ~ctxDone[w]
    /\ faults + stops < MaxFaults
    /\ stops' = stops + 1
    /\ ctxDone' = [ctxDone EXCEPT ![w] = TRUE]
    /\ cancelAt' = [cancelAt EXCEPT ![w] = pc[w]]
    /\ UNCHANGED <<pc, job, profIdx, walkIdx, variantPlaylists, result, attempts, succeeded,
                   crashPhase, lastConsume, probe, faults>>
    /\ UNCHANGED storeVars
    /\ UNCHANGED <<upc, dpc>>

\* the worker process dies: its memory is gone, its disk and the stores stay
Crash(w) ==
    /\ Alive(w)
    /\ faults + stops < MaxFaults
    /\ stops' = stops + 1
    /\ crashPhase' = [crashPhase EXCEPT ![w] =
                         IF pc[w] = "consume" THEN "idle"
                         ELSE IF pc[w] = "process" THEN "dequeued"
                         ELSE "processing"]
    /\ pc' = [pc EXCEPT ![w] = "crashed"]
    /\ result' = [result EXCEPT ![w] = NoResult]
    /\ attempts' = [attempts EXCEPT ![w] = <<>>]
    /\ succeeded' = [succeeded EXCEPT ![w] = {}]
    /\ ResetLocals(w)
    /\ UNCHANGED <<job, ctxDone, cancelAt, lastConsume, probe, faults>>
    /\ UNCHANGED storeVars
    /\ UNCHANGED <<upc, dpc>>

(***************************************************************************)
(* The admin side: DeleteMovie and the storage calls it makes.             *)
(***************************************************************************)
\* strings.HasPrefix, on tokens
HasPrefix(s, prefix) == Len(s) >= Len(prefix) /\ SubSeq(s, 1, Len(prefix)) = prefix

\* the name of a processed object as one string: base path, "/", file name
KeyString(key) == key[1] \o <<"/">> \o key[2]

\* DeleteProcessedVideo: prefix = fmt.Sprintf("processed-videos/%d/", movieID)
ProcessedVideoPrefix(movieID) == <<"processed-videos/", movieID, "/">>

\* DeleteProcessedVideo: ListObjects under the prefix, RemoveObject of each
\* object listed; f: the listing fails, and the error is returned
DeleteProcessedVideo(bucket, movieID, f) ==
    LET listed == {key \in DOMAIN bucket :
                      HasPrefix(KeyString(key), ProcessedVideoPrefix(movieID))}
    IN IF f THEN [err |-> TRUE, bucket |-> bucket]
       ELSE [err |-> FALSE, bucket |-> [key \in DOMAIN bucket \ listed |-> bucket[key]]]

\* DeleteRawVideo: RemoveObject in the raw bucket; f: it fails
DeleteRawVideo(bucket, objectName, f) == IF f THEN bucket ELSE bucket \ {objectName}

\* MovieRepository.DeleteMovie: the movie row goes, and its movie_videos row
\* with it (ON DELETE CASCADE)
DeleteMovieRow(table, movieID) == [m \in DOMAIN table \ {movieID} |-> table[m]]

\* MovieUsecase.DeleteMovie of an existing movie, its reads: FindMovieByID
\* and FindMovieVideoByMovieID, which gives the RawFilePath it goes by
DeleteRead(m) ==
    /\ dpc[m].at = "none"
    /\ m \in DOMAIN movieVideos
    /\ dpc' = [dpc EXCEPT ![m] = [at |-> "raw", raw |-> movieVideos[m].raw_file_path]]
    /\ UNCHANGED <<faults, stops>>
    /\ UNCHANGED storeVars
    /\ UNCHANGED workerVars
    /\ UNCHANGED upc

\* DeleteMovie: DeleteRawVideo when the RawFilePath read is not empty (f: it
\* fails), its error dropped
DeleteRaw(m, f) ==
    /\ dpc[m].at = "raw"
    /\ f => dpc[m].raw # <<>>
    /\ Fault(f)
    /\ rawBucket' = IF dpc[m].raw # <<>> THEN DeleteRawVideo(rawBucket, dpc[m].raw, f)
                    ELSE rawBucket
    /\ dpc' = [dpc EXCEPT ![m].at = "processed"]
    /\ UNCHANGED <<queue, movieVideos, processedBucket, workDirs, published, delivered>>
    /\ UNCHANGED workerVars
    /\ UNCHANGED upc

\* DeleteMovie: DeleteProcessedVideo (f: it fails), its error dropped
DeleteProcessed(m, f) ==
    /\ dpc[m].at = "processed"
    /\ Fault(f)
    /\ processedBucket' = DeleteProcessedVideo(processedBucket, m, f).bucket
    /\ dpc' = [dpc EXCEPT ![m].at = "rows"]
    /\ UNCHANGED <<queue, movieVideos, rawBucket, workDirs, published, delivered>>
    /\ UNCHANGED workerVars
    /\ UNCHANGED upc

\* DeleteMovie: the rows are deleted, or the error is returned (f)
DeleteRows(m, f) ==
    /\ dpc[m].at = "rows"
    /\ Fault(f)
    /\ movieVideos' = IF f THEN movieVideos ELSE DeleteMovieRow(movieVideos, m)
    /\ dpc' = [dpc EXCEPT ![m] = NoDelete]
    /\ UNCHANGED <<queue, rawBucket, processedBucket, workDirs, published, delivered>>
    /\ UNCHANGED workerVars
    /\ UNCHANGED upc

DownloadSteps == {"none", "download", "outputDir"}

Next ==
    \/ \E m \in MovieIDs, f \in BOOLEAN : UploadCreate(m, f)
    \/ \E m \in MovieIDs, ext \in Exts, f \in BOOLEAN : UploadRaw(m, ext, f)
    \/ \E m \in MovieIDs, ext \in Exts, f \in BOOLEAN : UploadSetPath(m, ext, f)
    \/ \E m \in MovieIDs, ext \in Exts, f \in BOOLEAN : UploadPublish(m, ext, f)
    \/ \E m \in MovieIDs, f2 \in BOOLEAN : UploadMarkFailed(m, f2)
    \/ \E w \in Workers : ConsumeJob(w)
    \/ \E w \in Workers : ConsumeTimeout(w)
    \/ \E w \in Workers, f \in BOOLEAN : ConsumeError(w, f)
    \/ \E w \in Workers, f \in BOOLEAN : MarkProcessing(w, f)
    \/ \E w \in Workers, f \in BOOLEAN : DownloadStart(w, f)
    \/ \E w \in Workers, step \in DownloadSteps, gone \in BOOLEAN :
           DownloadFinish(w, step, gone)
    \/ \E w \in Workers, ok \in BOOLEAN, partial \in BOOLEAN, f \in BOOLEAN :
           EncodeFinish(w, ok, partial, f)
    \/ \E w \in Workers, f \in BOOLEAN : UploadFile(w, f)
    \/ \E w \in Workers, f \in BOOLEAN : Finish(w, f)
    \/ \E w \in Workers : Cancel(w)
    \/ \E w \in Workers : Crash(w)

\* every worker process is running
Spec == Init /\ [][Next]_vars

\* the redeliveries of one job that are looked at
MaxRedeliveries == 1

\* how often movie id m is in a sequence of movie ids
Count(ids, m) == Cardinality({n \in 1..Len(ids) : ids[n] = m})

\* a queue that redelivers: the job of movie m, which has been delivered, is
\* in the list once more, as it was published
Redeliver(m, ext) ==
    /\ Count(delivered, m) >= 1
    /\ Count(published, m) <= MaxRedeliveries
    /\ queue' = LPush(queue, Marshal([MovieID |-> m, RawFilePath |-> RawObjectName(m, ext)]))
    /\ published' = Append(published, m)
    /\ UNCHANGED <<movieVideos, rawBucket, processedBucket, workDirs, delivered, faults, stops>>
    /\ UNCHANGED workerVars
    /\ UNCHANGED <<upc, dpc>>

\* every worker process is running, one movie is uploaded, and the queue
\* redelivers its job
NextRedelivery ==
    \/ \E f \in BOOLEAN : UploadCreate(1, f)
    \/ \E ext \in Exts, f \in BOOLEAN : UploadRaw(1, ext, f)
    \/ \E ext \in Exts, f \in BOOLEAN : UploadSetPath(1, ext, f)
    \/ \E ext \in Exts, f \in BOOLEAN : UploadPublish(1, ext, f)
    \/ \E f2 \in BOOLEAN : UploadMarkFailed(1, f2)
    \/ \E w \in Workers : ConsumeJob(w)
    \/ \E w \in Workers : ConsumeTimeout(w)
    \/ \E w \in Workers, f \in BOOLEAN : ConsumeError(w, f)
    \/ \E w \in Workers, f \in BOOLEAN : MarkProcessing(w, f)
    \/ \E w \in Workers, f \in BOOLEAN : DownloadStart(w, f)
    \/ \E w \in Workers, step \in DownloadSteps, gone \in BOOLEAN :
           DownloadFinish(w, step, gone)
    \/ \E w \in Workers, ok \in BOOLEAN, partial \in BOOLEAN, f \in BOOLEAN :
           EncodeFinish(w, ok, partial, f)
    \/ \E w \in Workers, f \in BOOLEAN : UploadFile(w, f)
    \/ \E w \in Workers, f \in BOOLEAN : Finish(w, f)
    \/ \E w \in Workers : Cancel(w)
    \/ \E w \in Workers : Crash(w)
    \/ \E ext \in Exts : Redeliver(1, ext)

SpecRedelivery == Init /\ [][NextRedelivery]_vars

\* the steps of the producer and of worker 1
NextSolo ==
    \/ \E m \in MovieIDs, f \in BOOLEAN : UploadCreate(m, f)
    \/ \E m \in MovieIDs, ext \in Exts, f \in BOOLEAN : UploadRaw(m, ext, f)
    \/ \E m \in MovieIDs, ext \in Exts, f \in BOOLEAN : UploadSetPath(m, ext, f)
    \/ \E m \in MovieIDs, ext \in Exts, f \in BOOLEAN : UploadPublish(m, ext, f)
    \/ \E m \in MovieIDs, f2 \in BOOLEAN : UploadMarkFailed(m, f2)
    \/ ConsumeJob(1)
    \/ ConsumeTimeout(1)
    \/ \E f \in BOOLEAN : ConsumeError(1, f)
    \/ \E f \in BOOLEAN : MarkProcessing(1, f)
    \/ \E f \in BOOLEAN : DownloadStart(1, f)
    \/ \E step \in DownloadSteps, gone \in BOOLEAN : DownloadFinish(1, step, gone)
    \/ \E ok \in BOOLEAN, partial \in BOOLEAN, f \in BOOLEAN : EncodeFinish(1, ok, partial, f)
    \/ \E f \in BOOLEAN : UploadFile(1, f)
    \/ \E f \in BOOLEAN : Finish(1, f)
    \/ Cancel(1)
    \/ Crash(1)

\* a single worker process is running (the others are never started)
SpecSolo == Init /\ [][NextSolo]_vars


\* the steps of the producer and of worker 1 for one movie
NextProbe ==
    \/ \E f \in BOOLEAN : UploadCreate(1, f)
    \/ \E ext \in Exts, f \in BOOLEAN : UploadRaw(1, ext, f)
    \/ \E ext \in Exts, f \in BOOLEAN : UploadSetPath(1, ext, f)
    \/ \E ext \in Exts, f \in BOOLEAN : UploadPublish(1, ext, f)
    \/ \E f2 \in BOOLEAN : UploadMarkFailed(1, f2)
    \/ ConsumeJob(1)
    \/ ConsumeTimeout(1)
    \/ \E f \in BOOLEAN : ConsumeError(1, f)
    \/ \E f \in BOOLEAN : MarkProcessing(1, f)
    \/ \E f \in BOOLEAN : DownloadStart(1, f)
    \/ \E step \in DownloadSteps, gone \in BOOLEAN : DownloadFinish(1, step, gone)
    \/ \E ok \in BOOLEAN, partial \in BOOLEAN, f \in BOOLEAN : EncodeFinish(1, ok, partial, f)
    \/ \E f \in BOOLEAN : UploadFile(1, f)
    \/ \E f \in BOOLEAN : Finish(1, f)
    \/ Cancel(1)
    \/ Crash(1)

\* the steps of the producer and of worker 1 for one movie, and of the admin
\* who deletes it
NextCatalog ==
    \/ NextProbe
    \/ DeleteRead(1)
    \/ \E f \in BOOLEAN : DeleteRaw(1, f)
    \/ \E f \in BOOLEAN : DeleteProcessed(1, f)
    \/ \E f \in BOOLEAN : DeleteRows(1, f)

\* a single worker process is running, and the movie is deleted
SpecCatalog == Init /\ [][NextCatalog]_vars

\* a single worker process is running, on a machine whose ffmpeg lists any
\* of the encoders or fails to list them
SpecProbe == InitProbe /\ [][NextProbe]_vars

\* both movies are uploaded, so that the worker runs two jobs, on a machine
\* whose ffmpeg lists none or all of the encoders or fails to list them
SpecProbeTwo == InitProbeEnds /\ [][NextSolo]_vars

\* the steps of the producer and of worker 1 with no crash, no cancellation
\* and no error of the queue or of the record store; object storage, the
\* disk and ffmpeg may still fail
NextLive ==
    \/ \E m \in MovieIDs : UploadCreate(m, FALSE)
    \/ \E m \in MovieIDs, ext \in Exts, f \in BOOLEAN : UploadRaw(m, ext, f)
    \/ \E m \in MovieIDs, ext \in Exts : UploadSetPath(m, ext, FALSE)
    \/ \E m \in MovieIDs, ext \in Exts : UploadPublish(m, ext, FALSE)
    \/ \E m \in MovieIDs : UploadMarkFailed(m, FALSE)
    \/ ConsumeJob(1)
    \/ ConsumeTimeout(1)
    \/ MarkProcessing(1, FALSE)
    \/ \E f \in BOOLEAN : DownloadStart(1, f)
    \/ \E step \in DownloadSteps, gone \in BOOLEAN : DownloadFinish(1, step, gone)
    \/ \E ok \in BOOLEAN, partial \in BOOLEAN, f \in BOOLEAN : EncodeFinish(1, ok, partial, f)
    \/ \E f \in BOOLEAN : UploadFile(1, f)
    \/ Finish(1, FALSE)

\* uploadHLSFiles of worker w returns, with the path or with an error: what
\* a step of Upload does to pc
UploadReturns(w) == pc[w] = "upload" /\ pc' = [pc EXCEPT ![w] = "finish"]

\* the calls worker 1 makes that return once they can: BRPOP with a job when
\* one is queued, the record updates, the download and each ffmpeg run
WorkerCalls ==
    \/ ConsumeJob(1)
    \/ MarkProcessing(1, FALSE)
    \/ \E f \in BOOLEAN : DownloadStart(1, f)
    \/ \E step \in DownloadSteps, gone \in BOOLEAN : DownloadFinish(1, step, gone)
    \/ \E ok \in BOOLEAN, partial \in BOOLEAN, f \in BOOLEAN : EncodeFinish(1, ok, partial, f)
    \/ Finish(1, FALSE)

\* no crash, no cancellation, no error of the queue or the record store, and
\* every call the worker makes returns
SpecLive == Init /\ [][NextLive]_vars /\ WF_vars(WorkerCalls) /\ WF_pc(UploadReturns(1))

\* the same with the history of the consume calls switched on, the worker's
\* BRPOP returning when its timeout has run out
SpecSoloFair == InitTracked /\ [][NextSolo]_vars /\ WF_vars(ConsumeTimeout(1))

(***************************************************************************)
(* The properties of the transcoding pipeline.                             *)
(***************************************************************************)
\* the master playlist TranscodeToHLS has written for worker w's job
MasterOf(w) == workDirs[job[w].MovieID].output[MasterName]

\* the profiles of S in configured order
RECURSIVE InOrder(_, _)
InOrder(S, i) ==
    IF i > NumProfiles THEN <<>>
    ELSE (IF i \in S THEN <<i>> ELSE <<>>) \o InOrder(S, i + 1)

\* C1: once the profiles S (non-empty) have encoded and the others failed, the
\* master playlist written has, after its header, exactly one
\* #EXT-X-STREAM-INF entry per profile of S, each followed at once by that
\* profile's playlist name, in the configured order 1080p, 720p, 480p, 360p.
C1_MasterListsSucceeded ==
    \A w \in Workers :
        pc[w] = "upload" =>
            LET master == MasterOf(w)
                order == InOrder(succeeded[w], 1)
            IN /\ succeeded[w] # {}
               /\ Len(master) = 2 + 2 * Len(order)
               /\ \A n \in 1..2 : "text" \in DOMAIN master[n]
               /\ \A n \in 1..Len(order) :
                     LET profile == qualityProfiles[order[n]]
                         inf == master[2 * n + 1]
                     IN /\ "tag" \in DOMAIN inf
                        /\ inf.tag = "#EXT-X-STREAM-INF"
                        /\ inf.RESOLUTION = profile.Resolution
                        /\ master[2 * n + 2] = [uri |-> <<profile.Name, ".m3u8">>]

\* C1's case: 1080p and 480p encoded, 720p and 360p failed, the master written
C1_Witness ==
    \E w \in Workers : pc[w] = "upload" /\ succeeded[w] = {1, 3} /\ Len(attempts[w]) = NumProfiles

\* the job worker w holds has had every profile attempted and none encoded
AllFailed(w) ==
    pc[w] = "finish" /\ Len(attempts[w]) = NumProfiles /\ succeeded[w] = {}

\* worker w's job holds no object in the processed bucket
NothingPut(w) ==
    \A key \in DOMAIN processedBucket : key[1] # <<"movie-", job[w].MovieID>>

\* worker w leaves processJob in this step
ProcessJobReturns(w) == pc[w] = "finish" /\ pc'[w] \in {"consume", "stopped"}

\* the record update worker w makes in this step can succeed: the store takes
\* it, the context is live and the row exists
UpdateGoesThrough(w) ==
    /\ ~ctxDone[w]
    /\ faults' = faults
    /\ job[w].MovieID \in DOMAIN movieVideos

\* C2 as stated: when every profile fails to encode, TranscodeToHLS returns an
\* error, nothing of the job is in the processed bucket, and processJob moves
\* the record from PROCESSING to FAILED with a non-empty error message.
C2_Original ==
    [][\A w \in Workers :
          AllFailed(w) /\ ProcessJobReturns(w) =>
              LET m == job[w].MovieID
              IN /\ result[w].err # ""
                 /\ NothingPut(w)
                 /\ m \in DOMAIN movieVideos'
                 /\ movieVideos'[m].upload_status = "FAILED"
                 /\ movieVideos'[m].error_message # ""]_vars

\* C2: when every profile fails to encode, TranscodeToHLS returns an error
\* without a master playlist and nothing of the job is in the processed
\* bucket; and if the record update goes through, processJob moves the record
\* from PROCESSING to FAILED with a non-empty error message.
C2_AllFailedMarksFailed ==
    [][\A w \in Workers :
          AllFailed(w) /\ ProcessJobReturns(w) =>
              LET m == job[w].MovieID
              IN /\ result[w].err # ""
                 /\ result[w].url = <<>>
                 /\ NothingPut(w)
                 /\ UpdateGoesThrough(w) =>
                       /\ movieVideos[m].upload_status = "PROCESSING"
                       /\ movieVideos'[m].upload_status = "FAILED"
                       /\ movieVideos'[m].error_message # ""]_vars

\* C2's case: a record FAILED by a job none of whose profiles encoded
C2_Witness ==
    \E m \in DOMAIN movieVideos :
        /\ movieVideos[m].upload_status = "FAILED"
        /\ movieVideos[m].error_message = "failed to transcode any quality level"

\* C3: when the upload of worker w's job stores every file, TranscodeToHLS
\* returns movie-{id}/master.m3u8 and no error; and when it has returned no
\* error (at least one profile encoded) and the record update goes through,
\* processJob moves the record from PROCESSING to READY with that path, which
\* is not empty, as its playlist path.
C3_SuccessMarksReady ==
    [][\A w \in Workers :
          LET m == job[w].MovieID
              url == <<<<"movie-", m>>, <<"master", ".m3u8">>>>
          IN /\ pc[w] = "upload" /\ pc'[w] = "finish" /\ ~ctxDone[w] /\ faults' = faults =>
                 /\ result'[w] = [err |-> "", url |-> url]
                 /\ url \in DOMAIN processedBucket'
             /\ pc[w] = "finish" /\ result[w].err = "" /\ ProcessJobReturns(w) =>
                 /\ succeeded[w] # {}
                 /\ result[w].url = url
                 /\ UpdateGoesThrough(w) =>
                       /\ movieVideos[m].upload_status = "PROCESSING"
                       /\ movieVideos'[m].upload_status = "READY"
                       /\ movieVideos'[m].hls_playlist_url = url
                       /\ url # <<>>]_vars

\* C3's case: a record READY with the master playlist path of its movie
C3_Witness ==
    \E m \in DOMAIN movieVideos :
        /\ movieVideos[m].upload_status = "READY"
        /\ movieVideos[m].hls_playlist_url \in DOMAIN processedBucket

\* C4: in every state of the record store a record has a playlist path
\* exactly when it is READY and an error message exactly when it is FAILED.
C4_StatusFields ==
    \A m \in DOMAIN movieVideos :
        /\ movieVideos[m].hls_playlist_url # <<>> <=> movieVideos[m].upload_status = "READY"
        /\ movieVideos[m].error_message # "" <=> movieVideos[m].upload_status = "FAILED"

\* C4's case: a READY record beside a FAILED one
C4_Witness ==
    \E m1, m2 \in DOMAIN movieVideos :
        /\ movieVideos[m1].upload_status = "READY"
        /\ movieVideos[m2].upload_status = "FAILED"

\* the status of record m changes in this step from a to b
Moves(m, a, b) ==
    /\ m \in DOMAIN movieVideos /\ m \in DOMAIN movieVideos'
    /\ movieVideos[m].upload_status = a
    /\ movieVideos'[m].upload_status = b

\* the status changes processJob makes: to PROCESSING on the dequeued job, to
\* READY after TranscodeToHLS returned no error, to FAILED after it returned one
ByProcessor(m) ==
    \E w \in Workers :
        /\ job[w].MovieID = m
        /\ \/ Moves(m, "PENDING", "PROCESSING") /\ pc[w] = "process"
           \/ Moves(m, "PROCESSING", "READY") /\ pc[w] = "finish" /\ result[w].err = ""
           \/ Moves(m, "PROCESSING", "FAILED") /\ pc[w] = "finish" /\ result[w].err # ""

\* the status change UploadMovie makes when its raw upload or its publish fails
ByProducer(m) ==
    /\ Moves(m, "PENDING", "FAILED")
    /\ upc[m] \in {"uploadFailed", "publishFailed"} /\ upc'[m] = "error"

\* the status of record m is not the same after this step
StatusChanges(m) ==
    /\ m \in DOMAIN movieVideos /\ m \in DOMAIN movieVideos'
    /\ movieVideos'[m].upload_status # movieVideos[m].upload_status

\* C5 as stated: a status changes only from PENDING to PROCESSING, from
\* PROCESSING to READY and from PROCESSING to FAILED, each time by processJob.
C5_Original ==
    [][\A m \in MovieIDs : StatusChanges(m) => ByProcessor(m)]_vars

\* C5: a status changes only from PENDING to PROCESSING, from PROCESSING to
\* READY and from PROCESSING to FAILED, by processJob, and from PENDING to
\* FAILED, by UploadMovie when its raw upload or its publish fails; no step
\* moves a READY or FAILED record back to PROCESSING.
C5_StatusTransitions ==
    [][\A m \in MovieIDs :
          /\ StatusChanges(m) => ByProcessor(m) \/ ByProducer(m)
          /\ ~Moves(m, "READY", "PROCESSING")
          /\ ~Moves(m, "FAILED", "PROCESSING")]_vars

\* C5's case: a record the producer has failed beside one the processor has finished
C5_Witness ==
    \E m1, m2 \in DOMAIN movieVideos :
        /\ upc[m1] = "error" /\ movieVideos[m1].upload_status = "FAILED"
        /\ upc[m2] = "ok" /\ movieVideos[m2].upload_status \in {"READY", "FAILED"}

\* C6: a job's working directory exists only while a worker is inside
\* TranscodeToHLS for that job (or has died there): it is gone when
\* TranscodeToHLS has returned, with a path or with any error.
C6_WorkDirRemoved ==
    /\ \A m \in DOMAIN workDirs :
          \E w \in Workers :
              job[w].MovieID = m /\ pc[w] \in {"downloading", "encoding", "upload", "crashed"}
    /\ \A w \in Workers :
          pc[w] = "finish" /\ result[w].err # "failed to create work directory" =>
              job[w].MovieID \notin DOMAIN workDirs

\* C6's case: TranscodeToHLS has returned an error after it had filled the
\* directory, and the directory is gone
C6_Witness ==
    \E w \in Workers :
        /\ pc[w] = "finish"
        /\ result[w].err = "failed to upload HLS files"
        /\ succeeded[w] # {}
        /\ job[w].MovieID \notin DOMAIN workDirs

\* C7: once the context is cancelled while worker w is encoding, no encode of
\* that job succeeds any more (ffmpeg is killed), and the worker neither
\* dequeues a job nor marks a record PROCESSING again: when processJob has
\* returned, Start returns.
C7_CancelDuringEncode ==
    [][\A w \in Workers :
          cancelAt[w] = "encoding" =>
              /\ pc[w] = "encoding" => succeeded'[w] \subseteq succeeded[w]
              /\ pc'[w] \notin {"consume", "process"}
              /\ job'[w] \in {job[w], NoJob}
              /\ pc[w] = "finish" /\ pc'[w] # "finish" => pc'[w] \in {"stopped", "crashed"}
              /\ Len(queue') < Len(queue) =>
                    \E w2 \in Workers \ {w} : pc[w2] = "consume" /\ pc'[w2] = "process"
              /\ \A m \in MovieIDs :
                    StatusChanges(m) /\ movieVideos'[m].upload_status = "PROCESSING" =>
                        \E w2 \in Workers \ {w} : job[w2].MovieID = m /\ pc[w2] = "process"]_vars

\* C7's case: cancelled while encoding, Start has returned with jobs still queued
C7_Witness ==
    \E w \in Workers : cancelAt[w] = "encoding" /\ pc[w] = "stopped" /\ queue # <<>>

\* C8: Start returns only with a cancelled context. While the context is
\* live, a consume error, a failed record update and a failed job lead to
\* the next consume; the job is dropped and not put back on the queue, and a
\* failed update leaves the record as it was.
C8_LoopContinues ==
    [][\A w \in Workers :
          /\ pc'[w] = "stopped" => ctxDone[w]
          /\ ~ctxDone[w] /\ pc[w] \in {"consume", "process", "finish"} /\ pc'[w] # pc[w] =>
                pc'[w] \in {"consume", "process", "download", "crashed"}
          /\ ProcessJobReturns(w) \/ (pc[w] = "process" /\ pc'[w] \in {"consume", "stopped"}) =>
                /\ job'[w] = NoJob
                /\ queue' = queue
                /\ ~ctxDone[w] => pc'[w] = "consume"
                /\ faults' # faults => movieVideos' = movieVideos]_vars

\* C8's case: an update has failed, the record is left PROCESSING with no
\* worker on it, and the worker, its context live, is at the next consume
C8_Witness ==
    \E w \in Workers, m \in DOMAIN movieVideos :
        /\ pc[w] = "consume" /\ ~ctxDone[w]
        /\ movieVideos[m].upload_status = "PROCESSING"
        /\ \A w2 \in Workers : job[w2].MovieID # m

\* C9: when a worker has died after it dequeued a job and marked it
\* PROCESSING, that job is in no state delivered again (it is not on the
\* queue, no other worker holds it, it was delivered once) and its record,
\* if it exists, stays PROCESSING.
C9_CrashLosesJob ==
    \A w \in Workers :
        crashPhase[w] = "processing" =>
            LET m == job[w].MovieID
            IN /\ \A n \in 1..Len(queue) : Unmarshal(queue[n]).MovieID # m
               /\ \A w2 \in Workers \ {w} : job[w2].MovieID # m
               /\ Len(SelectSeq(delivered, LAMBDA id : id = m)) = 1
               /\ m \in DOMAIN movieVideos => movieVideos[m].upload_status = "PROCESSING"

\* C9's case: a worker died on its job; another worker is alive and has
\* since taken and finished another job
C9_Witness ==
    \E w \in Workers, w2 \in Workers, m \in DOMAIN movieVideos :
        /\ crashPhase[w] = "processing"
        /\ w2 # w /\ pc[w2] = "consume" /\ queue = <<>>
        /\ m # job[w].MovieID /\ movieVideos[m].upload_status = "READY"
        /\ Len(delivered) = 2 /\ delivered[1] = job[w].MovieID

\* C10: jobs are delivered in the order they were published: the sequence of
\* delivered jobs is at every moment a prefix of the sequence of published
\* jobs, whatever the interleaving of the consumers.
C10_QueueFIFO ==
    /\ Len(delivered) <= Len(published)
    /\ \A n \in 1..Len(delivered) : delivered[n] = published[n]
    /\ Len(queue) = Len(published) - Len(delivered)

\* C10's case: two jobs published, the higher movie id first, and delivered
\* in that order to two workers, which both hold their job
C10_Witness ==
    /\ published = <<2, 1>>
    /\ delivered = <<2, 1>>
    /\ \E w1, w2 \in Workers :
          w1 # w2 /\ job[w1].MovieID = 2 /\ job[w2].MovieID = 1

\* C11: with several workers consuming the same queue, no job is delivered
\* twice and no two workers hold the same job, and the job a worker holds
\* carries the movie id and the raw object path PublishTranscodingJob was
\* given for that movie.
C11_DeliveredOnceUnchanged ==
    /\ \A i, j \in 1..Len(delivered) : i # j => delivered[i] # delivered[j]
    /\ \A w1, w2 \in Workers :
          w1 # w2 /\ job[w1] # NoJob => job[w2].MovieID # job[w1].MovieID
    /\ \A w \in Workers :
          job[w] # NoJob =>
              /\ \E n \in 1..Len(published) : published[n] = job[w].MovieID
              /\ \E n \in 1..Len(delivered) : delivered[n] = job[w].MovieID
              /\ job[w].RawFilePath = <<"raw-videos/movie-", job[w].MovieID, ".mp4">>
              /\ job[w].RawFilePath \in rawBucket

\* C11's case: two jobs delivered, one to each of two workers, both encoding
C11_Witness ==
    \E w1, w2 \in Workers :
        /\ job[w1].MovieID = 1 /\ job[w2].MovieID = 2
        /\ pc[w1] = "encoding" /\ pc[w2] = "encoding"
        /\ Len(delivered) = 2

\* C12: a consume on an empty queue with a live context does not block for
\* ever: it returns the no-job result. The step in which worker w gets that
\* result finds the queue empty and leaves the queue, the records, both
\* buckets and the working directories as they were, the worker holding no
\* job and, its context live, back at consume.
C12_NoJobReturns ==
    /\ [][\A w \in Workers :
             lastConsume[w] # "nojob" /\ lastConsume'[w] = "nojob" =>
                 /\ queue = <<>>
                 /\ UNCHANGED <<queue, movieVideos, rawBucket, processedBucket, workDirs>>
                 /\ job'[w] = NoJob
                 /\ ~ctxDone[w] => pc'[w] = "consume"]_vars
    /\ (pc[1] = "consume" /\ queue = <<>> /\ ~ctxDone[1])
           ~> (lastConsume[1] = "nojob" \/ queue # <<>> \/ ctxDone[1] \/ pc[1] # "consume")

\* C12's case: after a job has been finished the worker, its context live,
\* has got the no-job result and is at consume again
C12_Witness ==
    /\ lastConsume[1] = "nojob" /\ pc[1] = "consume" /\ ~ctxDone[1]
    /\ Len(delivered) = 1
    /\ \E m \in DOMAIN movieVideos : movieVideos[m].upload_status = "READY"

\* worker w leaves the download step of TranscodeToHLS in this step
DownloadEnds(w) == pc[w] \in {"download", "downloading"} /\ pc'[w] \in {"encoding", "finish"}

\* TranscodeToHLS of worker w's job has returned the download error
DownloadFailed(w) == pc[w] = "finish" /\ result[w].err = "failed to download raw video"

\* C13 as stated: when the raw object is missing or its download fails,
\* TranscodeToHLS returns an error with no encode attempted and nothing of
\* the job in the processed bucket, and processJob moves the record, which
\* exists, from PROCESSING to FAILED with a non-empty error message.
C13_Original ==
    [][\A w \in Workers :
          DownloadFailed(w) /\ ProcessJobReturns(w) /\ job[w].MovieID \in DOMAIN movieVideos =>
              LET m == job[w].MovieID
              IN /\ attempts[w] = <<>>
                 /\ NothingPut(w)
                 /\ movieVideos[m].upload_status = "PROCESSING"
                 /\ movieVideos'[m].upload_status = "FAILED"
                 /\ movieVideos'[m].error_message # ""]_vars

\* C13: with the context cancelled, or the raw object missing when the
\* download begins, the download step of a worker that is not killed ends in
\* an error; the copy of the raw
\* object begins only with the object in the bucket, and the first encode
\* starts only after a copy that met no failure and left input.mp4; a failed
\* download step takes the worker to the end of processJob with an error, no
\* encode attempted, the working directory gone and the processed bucket as
\* it was. There nothing of the job is in the processed bucket, and if the
\* record update goes through, processJob moves the record from PROCESSING to
\* FAILED with a non-empty error message.
C13_DownloadFailureMarksFailed ==
    [][\A w \in Workers :
          LET m == job[w].MovieID
          IN /\ pc[w] = "download" /\ pc'[w] \notin {"download", "crashed"}
                   /\ (ctxDone[w] \/ job[w].RawFilePath \notin rawBucket) =>
                   /\ pc'[w] = "finish"
                   /\ result'[w].err # "" /\ result'[w].url = <<>>
             /\ pc[w] = "downloading" /\ pc'[w] \notin {"downloading", "crashed"} /\ ctxDone[w] =>
                   /\ pc'[w] = "finish"
                   /\ result'[w].err = "failed to download raw video"
             /\ pc'[w] = "downloading" /\ pc[w] # "downloading" =>
                   /\ pc[w] = "download"
                   /\ ~ctxDone[w] /\ job[w].RawFilePath \in rawBucket
                   /\ m \in DOMAIN workDirs' /\ ~workDirs'[m].input
             /\ DownloadEnds(w) /\ pc'[w] = "encoding" =>
                   /\ pc[w] = "downloading"
                   /\ ~ctxDone[w]
                   /\ faults' = faults
                   /\ workDirs'[m].input
             /\ DownloadEnds(w) /\ pc'[w] = "finish" =>
                   /\ result'[w].err # "" /\ result'[w].url = <<>>
                   /\ attempts'[w] = <<>> /\ succeeded'[w] = {}
                   /\ m \notin DOMAIN workDirs'
                   /\ processedBucket' = processedBucket
             /\ DownloadFailed(w) =>
                   /\ attempts[w] = <<>>
                   /\ NothingPut(w)
                   /\ ProcessJobReturns(w) /\ UpdateGoesThrough(w) =>
                         /\ movieVideos[m].upload_status = "PROCESSING"
                         /\ movieVideos'[m].upload_status = "FAILED"
                         /\ movieVideos'[m].error_message # ""]_vars

\* worker w leaves uploadHLSFiles in this step
UploadEnds(w) == pc[w] = "upload" /\ pc'[w] = "finish"

\* TranscodeToHLS of worker w's job has returned the upload error
UploadFailedJob(w) == pc[w] = "finish" /\ result[w].err = "failed to upload HLS files"

\* C14 as stated, for a worker whose context is live: the first failed
\* object upload ends the upload step with the files before it stored and
\* neither it nor any later file stored, TranscodeToHLS returns an error, and
\* the record becomes FAILED with a non-empty error message.
C14_Original ==
    [][\A w \in Workers :
          UploadFailedJob(w) /\ ProcessJobReturns(w) /\ ~ctxDone[w] =>
              LET m == job[w].MovieID
              IN /\ <<BasePath(m), MasterName>> \notin DOMAIN processedBucket
                 /\ m \in DOMAIN movieVideos'
                 /\ movieVideos'[m].upload_status = "FAILED"
                 /\ movieVideos'[m].error_message # ""]_vars

\* C14: the walk begins with nothing of the job stored, and each of its
\* steps handles the next file only. A step that meets no failure stores
\* that one file and nothing else; a step that meets a failure (an FPutObject
\* error, or a cancelled context) stores nothing and ends the upload with an
\* error and no path: exactly the files before the failed one are stored,
\* neither it nor any later file is. Only an upload step changes the
\* processed bucket, and the worker goes through the upload once per job, so
\* nothing is stored afterwards. If the record update then goes through,
\* processJob moves the record from PROCESSING to FAILED with a non-empty
\* error message; if it does not (the store fails, or the context is
\* cancelled) processJob returns all the same and the record stays
\* PROCESSING with no message.
C14_UploadFailureAborts ==
    [][\A w \in Workers :
          LET m == job[w].MovieID
              files == WalkOrder(DOMAIN workDirs[m].output)
              next == files[walkIdx[w] + 1]
          IN /\ pc'[w] = "upload" /\ pc[w] # "upload" =>
                   walkIdx'[w] = 0 /\ NothingPut(w)'
             /\ pc[w] = "upload" /\ pc'[w] = "upload" /\ walkIdx'[w] # walkIdx[w] =>
                   /\ walkIdx'[w] = walkIdx[w] + 1 /\ walkIdx'[w] < Len(files)
                   /\ ~ctxDone[w] /\ faults' = faults
                   /\ processedBucket' = FPutObject(processedBucket, m, workDirs[m].output, next)
             /\ UploadEnds(w) /\ (ctxDone[w] \/ faults' # faults) =>
                   /\ result'[w].err = "failed to upload HLS files" /\ result'[w].url = <<>>
                   /\ processedBucket' = processedBucket
             /\ UploadEnds(w) /\ result'[w].err # "" =>
                   /\ ctxDone[w] \/ faults' # faults
                   /\ \A n \in 1..Len(files) :
                         ObjectName(m, files[n]) \in DOMAIN processedBucket' <=> n <= walkIdx[w]
                   /\ ObjectName(m, next) \notin DOMAIN processedBucket'
             /\ UploadFailedJob(w) =>
                   /\ UNCHANGED processedBucket
                   /\ pc'[w] # "upload"
                   /\ ProcessJobReturns(w) /\ UpdateGoesThrough(w) =>
                         /\ movieVideos[m].upload_status = "PROCESSING"
                         /\ movieVideos'[m].upload_status = "FAILED"
                         /\ movieVideos'[m].error_message # ""
                   /\ ProcessJobReturns(w) /\ ~UpdateGoesThrough(w) =>
                         /\ movieVideos' = movieVideos
                         /\ movieVideos[m].upload_status = "PROCESSING"
                         /\ movieVideos[m].error_message = ""
                         /\ job'[w] = NoJob /\ queue' = queue]_vars

\* C14's case: a record FAILED by a job whose upload failed after its first
\* files were stored, the master playlist not among them
C14_Witness ==
    \E m \in DOMAIN movieVideos :
        /\ movieVideos[m].upload_status = "FAILED"
        /\ movieVideos[m].error_message = "failed to upload HLS files"
        /\ \E key \in DOMAIN processedBucket : key[1] = BasePath(m)
        /\ <<BasePath(m), MasterName>> \notin DOMAIN processedBucket

\* C15: no job is run twice. The queue and the list of published jobs grow
\* only in a step of UploadMovie; a worker takes up a job only by a consume
\* that removes it from the queue, and calls TranscodeToHLS only from the
\* start of processJob on that job, its record PENDING until then; no job is
\* delivered twice; and a FAILED record is the same after every step.
C15_NoRetry ==
    /\ [][/\ Len(queue') > Len(queue) \/ published' # published =>
                \E m \in MovieIDs : upc[m] = "pathset" /\ upc'[m] = "ok"
          /\ \A w \in Workers :
                /\ pc'[w] = "process" /\ pc[w] # "process" =>
                      /\ pc[w] = "consume" /\ job[w] = NoJob
                      /\ Len(queue') = Len(queue) - 1
                      /\ delivered' = Append(delivered, job'[w].MovieID)
                /\ pc'[w] = "download" /\ pc[w] # "download" =>
                      /\ pc[w] = "process" /\ job'[w] = job[w]
                      /\ movieVideos[job[w].MovieID].upload_status = "PENDING"
                /\ job'[w] # job[w] => job[w] = NoJob \/ job'[w] = NoJob
          /\ \A m \in DOMAIN movieVideos :
                movieVideos[m].upload_status = "FAILED" =>
                    m \in DOMAIN movieVideos' /\ movieVideos'[m] = movieVideos[m]]_vars
    /\ [](\A i, j \in 1..Len(delivered) : i # j => delivered[i] # delivered[j])

\* C15's case: the worker failed the job of one movie and has since run the
\* job of the other to READY, the failed record and the empty queue as they were
C15_Witness ==
    \E m1, m2 \in DOMAIN movieVideos :
        /\ movieVideos[m1].upload_status = "FAILED"
        /\ movieVideos[m1].error_message = "failed to transcode any quality level"
        /\ movieVideos[m2].upload_status = "READY"
        /\ delivered = <<m1, m2>>
        /\ queue = <<>> /\ pc[1] = "consume"

\* C16: when the upload of worker w's job for movie id ends without error,
\* every file of the job's output directory, whatever ffmpeg left there, is
\* in the processed bucket under movie-{id}/<file name> with the content and
\* content type of the file; and in every step, a key that is new in the
\* processed bucket or holds a new object is movie-{id}/<file name> for the
\* file that the walk of a job being uploaded has come to, and no key is
\* removed: the objects of other movies are as they were.
C16_KeysUnderMoviePrefix ==
    [][/\ \A w \in Workers :
             UploadEnds(w) /\ result'[w].err = "" =>
                 LET id == job[w].MovieID
                     dir == workDirs[id].output
                 IN /\ result'[w].url \in DOMAIN processedBucket'
                    /\ \A name \in DOMAIN dir :
                          /\ <<<<"movie-", id>>, name>> \in DOMAIN processedBucket'
                          /\ processedBucket'[<<<<"movie-", id>>, name>>].content = dir[name]
                          /\ processedBucket'[<<<<"movie-", id>>, name>>].contentType = ContentType(name)
       /\ \A key \in DOMAIN processedBucket : key \in DOMAIN processedBucket'
       /\ \A key \in DOMAIN processedBucket' :
             key \notin DOMAIN processedBucket \/ processedBucket'[key] # processedBucket[key] =>
                 \E w \in Workers :
                     /\ pc[w] = "upload"
                     /\ key[1] = <<"movie-", job[w].MovieID>>
                     /\ key[2] = WalkOrder(DOMAIN workDirs[job[w].MovieID].output)[walkIdx[w] + 1]
                     /\ walkIdx'[w] = walkIdx[w] + 1 \/ pc'[w] = "finish"]_vars

\* C16's case: the uploads of two jobs have ended without error, each movie
\* with its own master playlist and debris of a killed encode among the files
C16_Witness ==
    \E w \in Workers :
        /\ pc[w] = "finish" /\ result[w].err = "" /\ job[w].MovieID = 2
        /\ <<<<"movie-", 1>>, MasterName>> \in DOMAIN processedBucket
        /\ <<<<"movie-", 2>>, MasterName>> \in DOMAIN processedBucket
        /\ processedBucket[<<<<"movie-", 1>>, MasterName>>] # processedBucket[<<<<"movie-", 2>>, MasterName>>]
        /\ \E key \in DOMAIN processedBucket :
              key[2][Len(key[2])] = ".ts" /\ <<key[1], <<key[2][1], ".m3u8">>>> \notin DOMAIN processedBucket

\* the number a string of decimal digits stands for
RECURSIVE DecimalValue(_)
DecimalValue(digits) ==
    IF digits = <<>> THEN 0
    ELSE LET last == digits[Len(digits)]
             d == CHOOSE n \in 0..9 : DigitChars[n + 1] = last
         IN 10 * DecimalValue(SubSeq(digits, 1, Len(digits) - 1)) + d

\* the configured bitrate of a profile in kbit/s: the digits before the k
Kbit(profile) == DecimalValue(SubSeq(profile.Bitrate, 1, Len(profile.Bitrate) - 1))

\* C17: in every master playlist written, each #EXT-X-STREAM-INF entry of a
\* matched profile has as BANDWIDTH a string of decimal digits whose value
\* is the profile's configured kbit/s times 1000: 5000000 for 1080p (5000k),
\* 2800000 for 720p, 1400000 for 480p (1400k) and 800000 for 360p.
C17_BandwidthIsKbitTimes1000 ==
    \A w \in Workers :
        pc[w] = "upload" =>
            LET master == MasterOf(w)
            IN \A n \in 1..Len(master) :
                  "tag" \in DOMAIN master[n] =>
                      LET name == master[n + 1].uri[1]
                          j == CHOOSE j \in 1..NumProfiles : qualityProfiles[j].Name = name
                          bandwidth == master[n].BANDWIDTH
                      IN /\ \E k \in 1..NumProfiles : qualityProfiles[k].Name = name
                         /\ \A d \in 1..Len(bandwidth) : \E v \in 1..10 : DigitChars[v] = bandwidth[d]
                         /\ DecimalValue(bandwidth) = Kbit(qualityProfiles[j]) * 1000
                         /\ name = "1080p" => DecimalValue(bandwidth) = 5000000
                         /\ name = "720p" => DecimalValue(bandwidth) = 2800000
                         /\ name = "480p" => DecimalValue(bandwidth) = 1400000
                         /\ name = "360p" => DecimalValue(bandwidth) = 800000

\* C17's case: a master playlist written with the entries of all four profiles
C17_Witness ==
    \E w \in Workers :
        /\ pc[w] = "upload" /\ succeeded[w] = 1..NumProfiles
        /\ MasterOf(w)[3].BANDWIDTH = <<"5", "0", "0", "0", "0", "0", "0">>
        /\ MasterOf(w)[7].BANDWIDTH = <<"1", "4", "0", "0", "0", "0", "0">>

\* no worker holds a job of movie m
NoJobOf(m) == \A w \in Workers : job[w].MovieID # m

\* C18 as stated: when DeleteMovie of movie m has deleted its rows, no call
\* of the run having failed (its DeleteProcessedVideo returned no error) and
\* no job of m being in a worker's hands, the processed bucket holds no
\* object under movie-{m}/.
C18_Original ==
    [][\A m \in MovieIDs :
          /\ m \in DOMAIN movieVideos /\ m \notin DOMAIN movieVideos'
          /\ faults' = 0
          /\ NoJobOf(m)
          => \A key \in DOMAIN processedBucket' : key[1] # <<"movie-", m>>]_vars

\* C13's case with the raw object missing: a record FAILED by a job whose
\* download failed because a DeleteMovie, its rows not deleted, had removed
\* the raw object
C13_Witness ==
    \E m \in DOMAIN movieVideos :
        /\ movieVideos[m].upload_status = "FAILED"
        /\ movieVideos[m].error_message = "failed to download raw video"
        /\ movieVideos[m].raw_file_path # <<>>
        /\ movieVideos[m].raw_file_path \notin rawBucket
        /\ \A w \in Workers : ~ctxDone[w]
        /\ \A key \in DOMAIN processedBucket : key[1] # <<"movie-", m>>

\* worker w leaves the loop over the profiles in this step
LoopEnds(w) == pc[w] = "encoding" /\ pc'[w] \in {"upload", "finish"}

\* the two returns of TranscodeToHLS before the raw download has succeeded
BeforeDownloaded ==
    {"failed to create work directory", "failed to download raw video"}

\* C19 as stated: once the raw download has succeeded the first profile is
\* attempted, and when the loop ends every profile has been attempted once,
\* in the configured order.
C19_Original ==
    [][\A w \in Workers :
          /\ DownloadEnds(w) /\ result'[w].err \notin BeforeDownloaded =>
                pc'[w] = "encoding" /\ profIdx'[w] = 1
          /\ LoopEnds(w) => attempts'[w] = [n \in 1..NumProfiles |-> n]]_vars

\* C19: once the raw download has succeeded and the output directory is
\* created, the first profile is attempted; while the loop runs, exactly the
\* profiles before the one in flight have been attempted, once each and in
\* the configured order, and one ffmpeg run is in flight; a run that ends,
\* failed or not, is followed by the run of the next profile, and the loop
\* ends only after the last profile with all of them attempted once, in
\* order (with the context cancelled every remaining run fails at once).
C19_EveryProfileOnceInOrder ==
    /\ [][\A w \in Workers :
             /\ DownloadEnds(w) /\ result'[w].err \notin BeforeDownloaded
                    /\ result'[w].err # "failed to create output directory" =>
                   pc'[w] = "encoding" /\ profIdx'[w] = 1 /\ attempts'[w] = <<>>
             /\ pc'[w] = "encoding" /\ pc[w] # "encoding" => pc[w] = "downloading"
             /\ pc[w] = "encoding" /\ pc'[w] = "encoding" /\ profIdx'[w] # profIdx[w] =>
                   /\ profIdx'[w] = profIdx[w] + 1
                   /\ attempts'[w] = Append(attempts[w], profIdx[w])
             /\ LoopEnds(w) =>
                   /\ profIdx[w] = NumProfiles \/ ctxDone[w]
                   /\ attempts'[w] = [n \in 1..NumProfiles |-> n]
                   /\ succeeded'[w] = {} <=> result'[w].err = "failed to transcode any quality level"]_vars
    /\ [](\A w \in Workers :
             pc[w] = "encoding" =>
                 /\ profIdx[w] \in 1..NumProfiles
                 /\ attempts[w] = [n \in 1..(profIdx[w] - 1) |-> n]
                 /\ succeeded[w] \subseteq 1..(profIdx[w] - 1))

\* C19's case: the loop has ended with the first and third profile failed
\* and the second and fourth encoded
C19_Witness ==
    \E w \in Workers :
        /\ pc[w] = "upload"
        /\ attempts[w] = [n \in 1..NumProfiles |-> n]
        /\ succeeded[w] = {2, 4}
        /\ ~ctxDone[w]

\* worker w's context was cancelled while TranscodeToHLS was running its job
\* or had just returned
CancelledInFlight(w) ==
    ctxDone[w] /\ cancelAt[w] \in {"download", "downloading", "encoding", "upload", "finish"}

\* C20 as stated: when the context of worker w was cancelled while its job
\* was in flight and processJob returns, the record of the job, which
\* exists, is READY or FAILED with an error message, and not PROCESSING.
C20_Original ==
    [][\A w \in Workers :
          CancelledInFlight(w) /\ ProcessJobReturns(w) /\ job[w].MovieID \in DOMAIN movieVideos =>
              LET after == movieVideos'[job[w].MovieID]
              IN \/ after.upload_status = "READY"
                 \/ after.upload_status = "FAILED" /\ after.error_message # ""]_vars

\* worker w is between its PROCESSING update and its final update: in
\* TranscodeToHLS (the copy of the raw object included) or back from it
InFlight(w) == pc[w] \in {"download", "downloading", "encoding", "upload", "finish"}

\* worker w is at the start of processJob with the job of a movie that
\* another worker has in flight
RedeliveredWhileInFlight(w) ==
    /\ pc[w] = "process"
    /\ \E o \in Workers \ {w} : InFlight(o) /\ job[o].MovieID = job[w].MovieID

\* two workers have the same movie in flight
TwoInFlight ==
    \E w1, w2 \in Workers :
        w1 # w2 /\ InFlight(w1) /\ InFlight(w2) /\ job[w1].MovieID = job[w2].MovieID

\* C21 as stated. That a state with two orchestrations of one movie in
\* flight is reachable is the negation of the invariant ~TwoInFlight, which
\* C21_RedeliveryOneInFlight shows to hold; what is stated here is the reason
\* the claim gives for it, that nothing prevents the second instance: a
\* worker given the job of a movie that another worker has in flight, whose
\* PROCESSING update meets no store error, goes on to TranscodeToHLS, and the
\* movie then is in flight twice.
C21_Original ==
    [][\A w \in Workers :
          /\ RedeliveredWhileInFlight(w)
          /\ pc'[w] \notin {"process", "crashed"}
          /\ UpdateGoesThrough(w)
          => pc'[w] = "download" /\ TwoInFlight']_vars

\* C21: with the job of a movie delivered twice and two workers running, a
\* worker given the job while another has it in flight finds the record
\* PROCESSING, its update changes no row, and processJob returns without
\* TranscodeToHLS and without a write: no two workers have the same movie in
\* flight. A delivery after the first run has ended is run again, from
\* READY or FAILED through PROCESSING, and each final update that goes
\* through writes its own status over what was there.
C21_RedeliveryOneInFlight ==
    /\ []~TwoInFlight
    /\ [][\A w \in Workers :
             LET m == job[w].MovieID
             IN /\ RedeliveredWhileInFlight(w) /\ pc'[w] \notin {"process", "crashed"} =>
                      /\ movieVideos[m].upload_status = "PROCESSING"
                      /\ pc'[w] \in {"consume", "stopped"}
                      /\ UNCHANGED <<movieVideos, processedBucket, rawBucket, queue>>
                /\ pc[w] = "process" /\ pc'[w] = "download" =>
                      /\ movieVideos[m].upload_status \in {"PENDING", "READY", "FAILED"}
                      /\ movieVideos'[m].upload_status = "PROCESSING"
                /\ pc[w] = "finish" /\ ProcessJobReturns(w) /\ UpdateGoesThrough(w) =>
                      /\ movieVideos[m].upload_status = "PROCESSING"
                      /\ movieVideos'[m].upload_status =
                             IF result[w].err = "" THEN "READY" ELSE "FAILED"]_vars

\* C21's case, the overwrite: the job of movie 1 was delivered twice; the
\* first run ended READY, and the second, which the other worker made from
\* READY through PROCESSING after the first had ended, ended FAILED: the
\* record is FAILED with the message of the second run and still names the
\* playlist of the first, whose objects are in the processed bucket. (The
\* other case, the job given to a worker while the movie is in flight, is
\* the step on which C21_Original fails.)
C21_Witness ==
    /\ 1 \in DOMAIN movieVideos
    /\ Count(delivered, 1) = 2
    /\ movieVideos[1].upload_status = "FAILED"
    /\ movieVideos[1].error_message # ""
    /\ movieVideos[1].hls_playlist_url = MasterPlaylistURL(1)
    /\ MasterPlaylistURL(1) \in DOMAIN processedBucket
    /\ \A w \in Workers : job[w] = NoJob

\* worker w has run the probe in a process where the probes are followed
HasProbed(w) == probe[w].tracked /\ probe[w].calls > 0

\* C22 as stated: the encoder selected is the first available of the
\* hardware backend h264_vaapi, the hardware backend h264_nvenc and the
\* software backend libopenh264, and mpeg4 when none of them is listed or
\* the probe fails.
C22_Original ==
    \A w \in Workers :
        HasProbed(w) =>
            probe[w].encoder =
                IF probe[w].err THEN "mpeg4"
                ELSE IF "h264_vaapi" \in probe[w].output THEN "h264_vaapi"
                ELSE IF "h264_nvenc" \in probe[w].output THEN "h264_nvenc"
                ELSE IF "libopenh264" \in probe[w].output THEN "libopenh264"
                ELSE "mpeg4"

\* C22: the encoder selected is a function of what the probe reports:
\* libopenh264 when the probe succeeds and lists it, whatever else is
\* listed, and mpeg4 in every other case (the probe fails, or libopenh264 is
\* not listed); a hardware encoder is never selected.
C22_SoftwareEncoderSelected ==
    \A w \in Workers :
        HasProbed(w) =>
            /\ probe[w].encoder \in {"libopenh264", "mpeg4"}
            /\ probe[w].encoder = "libopenh264" <=>
                   ~probe[w].err /\ "libopenh264" \in probe[w].output
            /\ probe[w].err => probe[w].encoder = "mpeg4"

\* C22's case: the probe lists both hardware encoders and libopenh264, and
\* libopenh264 is selected
C22_Witness ==
    \E w \in Workers :
        /\ HasProbed(w)
        /\ ~probe[w].err
        /\ {"h264_vaapi", "h264_nvenc", "libopenh264"} \subseteq probe[w].output
        /\ probe[w].encoder = "libopenh264"

\* C23 as stated: a worker process runs the probe at most once.
C23_Original ==
    \A w \in Workers : probe[w].tracked => probe[w].calls <= 1

\* C23: the probe is run once by every call of transcodeQuality and its
\* result is not kept: in a step in which worker w's attempted profiles grow
\* by n, its probes grow by n, and by nothing in any other step; so a
\* worker has run the probe once per profile of every job it has taken
\* through the loop, and once per profile attempted so far of the job it
\* is encoding.
C23_ProbePerProfile ==
    /\ [][\A w \in Workers :
             probe[w].tracked =>
                 IF Len(attempts'[w]) > Len(attempts[w])
                 THEN probe'[w].calls = probe[w].calls + Len(attempts'[w]) - Len(attempts[w])
                 ELSE probe'[w].calls = probe[w].calls]_vars
    /\ [](\A w \in Workers :
             probe[w].tracked /\ pc[w] \in {"encoding", "upload"} =>
                 \E jobs \in 0..MaxMovies :
                     probe[w].calls = jobs * NumProfiles + Len(attempts[w]))

\* C23's case: the worker has taken two jobs through the loop and has run
\* the probe eight times
C23_Witness ==
    \E w \in Workers :
        /\ probe[w].tracked
        /\ probe[w].calls = 2 * NumProfiles
        /\ Len(delivered) = 2
        /\ pc[w] = "upload"

\* C24: a worker holds a job exactly from the consume that delivered it to
\* the return of processJob, and one at a time: a job is delivered only to a
\* worker that is at consume and holds none, a held job is replaced by no
\* other job, a worker at consume holds no job, and while a worker has a
\* job in flight the record of that job, and of that job only, is the one
\* it has set to PROCESSING.
C24_OneJobInFlight ==
    /\ [][\A w \in Workers :
             /\ job'[w] # job[w] /\ job'[w] # NoJob =>
                   /\ pc[w] = "consume" /\ job[w] = NoJob
                   /\ delivered' = Append(delivered, job'[w].MovieID)
             /\ job'[w] # job[w] /\ job'[w] = NoJob =>
                   pc[w] \in {"process", "finish"} /\ pc'[w] \in {"consume", "stopped"}
             /\ Len(delivered') > Len(delivered) =>
                   \E v \in Workers : pc[v] = "consume" /\ pc'[v] = "process" /\ job[v] = NoJob
             /\ pc[w] = "process" /\ pc'[w] = "download" =>
                   \A m \in DOMAIN movieVideos :
                       movieVideos'[m].upload_status # movieVideos[m].upload_status =>
                           m = job[w].MovieID]_vars
    /\ [](\A w \in Workers :
             /\ pc[w] \in {"consume", "stopped"} => job[w] = NoJob
             /\ InFlight(w) \/ pc[w] = "process" => job[w] # NoJob
             /\ InFlight(w) => movieVideos[job[w].MovieID].upload_status = "PROCESSING")

\* C24's case: the worker has the second job in flight, the first having
\* returned with its record READY
C24_Witness ==
    /\ delivered = <<1, 2>>
    /\ InFlight(1) /\ job[1].MovieID = 2 /\ pc[1] = "encoding"
    /\ movieVideos[1].upload_status = "READY"
    /\ movieVideos[2].upload_status = "PROCESSING"

\* the job of movie m has been published
Published(m) == \E n \in 1..Len(published) : published[n] = m

\* the record of movie m is READY or FAILED
Terminal(m) ==
    m \in DOMAIN movieVideos /\ movieVideos[m].upload_status \in {"READY", "FAILED"}

\* C25: with no crash, no cancellation, no error of the queue or of the
\* record store, and every call of the worker returning, every job
\* published is eventually delivered, its record eventually is READY or
\* FAILED, and a record that is READY or FAILED stays as it is.
C25_EveryJobEnds ==
    /\ \A m \in MovieIDs : Published(m) ~> (\E n \in 1..Len(delivered) : delivered[n] = m)
    /\ \A m \in MovieIDs : Published(m) ~> Terminal(m)
    /\ [][\A m \in MovieIDs : Terminal(m) => movieVideos'[m] = movieVideos[m]]_vars

\* C25's case: both jobs published have ended, one READY and one FAILED
C25_Witness ==
    /\ Len(published) = 2 /\ Len(delivered) = 2
    /\ pc[1] = "consume" /\ queue = <<>>
    /\ \E m1, m2 \in MovieIDs :
          /\ movieVideos[m1].upload_status = "READY"
          /\ movieVideos[m2].upload_status = "FAILED"

\* processJob of worker w returns from its PROCESSING update with an error
ProcessingUpdateFails(w) ==
    pc[w] = "process" /\ pc'[w] \in {"consume", "stopped"}

\* the job of movie m was delivered and dropped with the record still PENDING
Dropped(m) ==
    /\ \E n \in 1..Len(delivered) : delivered[n] = m
    /\ NoJobOf(m)
    /\ m \in DOMAIN movieVideos /\ movieVideos[m].upload_status = "PENDING"

\* C26: when the update to PROCESSING fails, processJob returns with the
\* orchestrator not called (no work directory, no ffmpeg run), with the
\* record store, both buckets and the queue as they were, and with the job
\* dropped; the record, PENDING since before the dequeue, is written by
\* nobody afterwards and no object of the movie is stored afterwards.
C26_ProcessingFailureDropsJob ==
    /\ [][\A w \in Workers : ProcessingUpdateFails(w) =>
             /\ movieVideos' = movieVideos
             /\ rawBucket' = rawBucket /\ processedBucket' = processedBucket
             /\ workDirs' = workDirs /\ attempts'[w] = attempts[w]
             /\ queue' = queue /\ published' = published
             /\ job[w] # NoJob /\ job'[w] = NoJob
             /\ job[w].MovieID \in DOMAIN movieVideos =>
                   movieVideos[job[w].MovieID].upload_status = "PENDING"]_vars
    /\ [][\A m \in MovieIDs : Dropped(m) =>
             /\ m \in DOMAIN movieVideos' => movieVideos'[m] = movieVideos[m]
             /\ \A key \in DOMAIN processedBucket' :
                   key[1] = BasePath(m) => key \in DOMAIN processedBucket
             /\ \A n \in 1..Len(queue') : Unmarshal(queue'[n]).MovieID # m]_vars
    /\ [](\A w \in Workers : pc[w] = "process" /\ job[w].MovieID \in DOMAIN movieVideos =>
             movieVideos[job[w].MovieID].upload_status = "PENDING")

\* C26's case: the update to PROCESSING of movie 1 failed on a record-store
\* error: the worker is back at the loop without the job, the record is
\* PENDING, nothing was stored, and the queue is empty
C26_Witness ==
    /\ delivered = <<1>> /\ pc[1] = "consume" /\ job[1] = NoJob
    /\ faults = 1 /\ Dropped(1)
    /\ queue = <<>> /\ DOMAIN processedBucket = {} /\ 1 \notin DOMAIN workDirs

\* the playlists a master playlist refers to
VariantURIs(master) ==
    {master[n].uri : n \in {i \in 1..Len(master) : "uri" \in DOMAIN master[i]}}

\* the processed bucket holds the master playlist the record of movie m names
\* and every playlist that master playlist refers to
Playable(m) ==
    /\ movieVideos[m].hls_playlist_url = MasterPlaylistURL(m)
    /\ MasterPlaylistURL(m) \in DOMAIN processedBucket
    /\ \A uri \in VariantURIs(processedBucket[MasterPlaylistURL(m)].content) :
          ObjectName(m, uri) \in DOMAIN processedBucket

\* C27: a record that is READY names movie-{id}/master.m3u8, that object is
\* in the processed bucket, and so is every playlist it refers to; the step
\* that writes READY is taken by a worker whose uploadHLSFiles returned the
\* path without an error.
C27_ReadyIsPlayable ==
    /\ [](\A m \in DOMAIN movieVideos :
             movieVideos[m].upload_status = "READY" => Playable(m))
    /\ [][\A m \in DOMAIN movieVideos :
             /\ m \in DOMAIN movieVideos'
             /\ movieVideos'[m].upload_status = "READY"
             /\ movieVideos[m].upload_status # "READY"
             => \E w \in Workers :
                   /\ pc[w] = "finish" /\ job[w].MovieID = m
                   /\ result[w] = [err |-> "", url |-> MasterPlaylistURL(m)]
                   /\ processedBucket' = processedBucket]_vars

\* C27's case: the record of movie 1 is READY after a run in which one
\* profile failed, and its master playlist refers to the other playlists
C27_Witness ==
    /\ 1 \in DOMAIN movieVideos
    /\ movieVideos[1].upload_status = "READY"
    /\ Playable(1)
    /\ Cardinality(VariantURIs(processedBucket[MasterPlaylistURL(1)].content))
          = NumProfiles - 1

\* the jobs in the queue and the jobs held by the workers
JobsAbout ==
    ({Unmarshal(queue[n]) : n \in 1..Len(queue)} \cup {job[w] : w \in Workers}) \ {NoJob}

\* C28: with no DeleteMovie, the raw object a queued or held job names is in
\* the raw bucket and the record of its movie exists with that path as its
\* raw_file_path. The producer's order shows in what each failure leaves
\* behind: a raw object only with a record, a raw_file_path only with its raw
\* object, a job only with the raw_file_path; UploadMovie stores the raw
\* object only after it created the record, sets raw_file_path only after it
\* stored the raw object, and publishes, as its last step, only after it set
\* raw_file_path, the job naming that path.
C28_JobHasRawAndRecord ==
    /\ [](\A j \in JobsAbout :
             /\ j.RawFilePath \in rawBucket
             /\ j.MovieID \in DOMAIN movieVideos
             /\ movieVideos[j.MovieID].raw_file_path = j.RawFilePath)
    /\ [](\A m \in MovieIDs :
             /\ (\E ext \in Exts : RawObjectName(m, ext) \in rawBucket) =>
                    m \in DOMAIN movieVideos
             /\ m \in DOMAIN movieVideos /\ movieVideos[m].raw_file_path # <<>> =>
                    movieVideos[m].raw_file_path \in rawBucket
             /\ Published(m) =>
                    m \in DOMAIN movieVideos /\ movieVideos[m].raw_file_path # <<>>)
    /\ [][Len(published') > Len(published) =>
             LET m == published'[Len(published')]
             IN /\ upc[m] = "pathset" /\ upc'[m] = "ok"
                /\ m \in DOMAIN movieVideos /\ movieVideos[m].raw_file_path # <<>>
                /\ Unmarshal(queue'[1]).RawFilePath = movieVideos[m].raw_file_path
                /\ movieVideos[m].raw_file_path \in rawBucket]_vars
    /\ [][\A m \in MovieIDs :
             /\ upc'[m] = "stored" /\ upc[m] # "stored" =>
                    /\ upc[m] = "created" /\ m \in DOMAIN movieVideos
                    /\ movieVideos[m].raw_file_path = <<>>
                    /\ \E ext \in Exts : RawObjectName(m, ext) \in rawBucket' \ rawBucket
             /\ upc'[m] = "pathset" /\ upc[m] # "pathset" =>
                    /\ upc[m] = "stored"
                    /\ movieVideos'[m].raw_file_path \in rawBucket
                    /\ movieVideos[m].raw_file_path = <<>>
                    /\ ~Published(m)]_vars

\* C28's case: the job of movie 2 is in the queue while a worker holds the
\* job of movie 1, whose upload has long returned
C28_Witness ==
    /\ Len(queue) = 1 /\ Unmarshal(queue[1]).MovieID = 2
    /\ job[1].MovieID = 1 /\ pc[1] = "encoding"
    /\ upc[1] = "ok" /\ upc[2] = "ok"

\* UploadMovie for movie m has returned an error of UploadRawVideo (no raw
\* object is stored) or of PublishTranscodingJob (raw_file_path is set)
UploadOrPublishFailed(m) ==
    /\ upc[m] \in {"error", "aborted"}
    /\ m \in DOMAIN movieVideos
    /\ \/ \A ext \in Exts : RawObjectName(m, ext) \notin rawBucket
       \/ movieVideos[m].raw_file_path # <<>>

\* C29 as the specification words it: after a failed raw upload or publish
\* the record is FAILED with a message
C29_Original ==
    \A m \in MovieIDs : UploadOrPublishFailed(m) =>
        /\ movieVideos[m].upload_status = "FAILED"
        /\ movieVideos[m].error_message # ""

\* C29: when UploadRawVideo or PublishTranscodingJob fails, UploadMovie
\* returns an error with nothing published; the record is FAILED with a
\* message if the update to FAILED went through and is left PENDING if that
\* update failed too; no job of the movie is in the queue or with a worker,
\* and the record never is PROCESSING or READY.
C29_FailedUploadQueuesNothing ==
    /\ [](\A m \in MovieIDs : UploadOrPublishFailed(m) =>
             /\ upc[m] = "error" =>
                   /\ movieVideos[m].upload_status = "FAILED"
                   /\ movieVideos[m].error_message # ""
             /\ upc[m] = "aborted" =>
                   /\ movieVideos[m].upload_status = "PENDING"
                   /\ movieVideos[m].error_message = ""
             /\ ~Published(m)
             /\ \A j \in JobsAbout : j.MovieID # m)
    /\ [][\A m \in MovieIDs :
             /\ upc'[m] # upc[m] /\ upc'[m] \in {"uploadFailed", "publishFailed", "error", "aborted"} =>
                    queue' = queue /\ published' = published
             /\ upc'[m] = "aborted" =>
                    upc[m] \in {"uploadFailed", "publishFailed", "aborted"}
             /\ upc[m] \in {"uploadFailed", "publishFailed"} /\ upc'[m] = "aborted" =>
                    faults' # faults /\ movieVideos' = movieVideos]_vars

\* C29's case: the publish of movie 1 failed, its record is FAILED with the
\* message, and the worker finds the queue empty
C29_Witness ==
    /\ upc[1] = "error" /\ UploadOrPublishFailed(1)
    /\ movieVideos[1].raw_file_path # <<>>
    /\ movieVideos[1].upload_status = "FAILED"
    /\ queue = <<>> /\ pc[1] = "consume"

\* C30 as stated: when processJob returns for a job whose movie DeleteMovie
\* has deleted in the meantime (no record of it is left), the processed
\* bucket holds no object under movie-{m}/.
C30_Original ==
    [][\A w \in Workers :
          /\ pc[w] = "finish" /\ pc'[w] \in {"consume", "stopped"}
          /\ job[w].MovieID \notin DOMAIN movieVideos
          => \A key \in DOMAIN processedBucket' : key[1] # BasePath(job[w].MovieID)]_vars

====
